---- MODULE Spec2Model ----
(***************************************************************************)
(* Response decoding and request dispatch of bc-api-client                 *)
(* (src/bc-api-client/src/response.rs, request.rs), and the batches that   *)
(* derive(Batch) of bc-batch and derive(Record) of bc-database generate.   *)
(*                                                                         *)
(* Response::<R>::decode reads status, headers and body text of a received *)
(* HTTP response and hands them to try_from, which classifies the status,  *)
(* deserializes the body as the target type R with serde_json and falls    *)
(* back to casting the body into a JSON string.                            *)
(*                                                                         *)
(* Text is a sequence of one-character strings.  serde_json is modelled by *)
(* what it does on the characters the model's bodies contain: whitespace,  *)
(* the idents null/true/false, unsigned integers, string literals with     *)
(* escapes, arrays and objects.  Signs, fractions, exponents and \u, \b,   *)
(* \f escapes occur in no body of the model and are left out.              *)
(* The text of an error description is modelled by its error code and by   *)
(* whether serde_json appends " at line L column C" to it (it does for     *)
(* from_str, it does not for from_value).                                  *)
(*                                                                         *)
(* Further parts: the insert of a derived batch in one transaction         *)
(* (bc-record-derive builder.rs), Options::connect of bc-database,         *)
(* derive(QueryBuilder) of bc-query, and fill_route! / route! of bc-utils. *)
(* There a string is the sequence of the pieces format! puts together, or  *)
(* of its characters where replacement works on characters.                *)
(***************************************************************************)
EXTENDS Integers, Sequences, FiniteSets, TLC

VARIABLES response, target, result, pc, call, sends, fault, records, batch, way,
          step, tx, db, executed, outcome, opts, query, base, lastCall, route, filled

\* The state of a call of bc-api-client.
apiVars == <<response, target, result, pc, call, sends, fault>>

\* The state of a batch of bc-batch or bc-database: the items or records given
\* to it, the batch, and the way it was made.
batchVars == <<records, batch, way>>

\* The state of a Postgres server and of a call of bc-database on it: the
\* position of the call, the open transaction, the databases and rows of the
\* server, the statements executed, what the call returned, and its options.
dbVars == <<step, tx, db, executed, outcome, opts>>

\* A query of bc-query, the string it is appended to, and the last call made
\* on them with its input.
queryVars == <<query, base, lastCall>>

\* The inputs of a use of fill_route! or route! and the string it gave.
routeVars == <<route, filled>>

\* What a call of bc-api-client leaves alone.
notApiVars == <<batchVars, dbVars, queryVars, routeVars>>

\* What the making of a batch leaves alone.
notBatchVars == <<apiVars, dbVars, queryVars, routeVars>>

\* What a call of bc-database leaves alone besides the batch.
notDbVars == <<apiVars, queryVars, routeVars>>

\* What a call on a query leaves alone.
notQueryVars == <<apiVars, batchVars, dbVars, routeVars>>

\* What fill_route! leaves alone.
notRouteVars == <<apiVars, batchVars, dbVars, queryVars>>

vars ==
    <<response, target, result, pc, call, sends, fault, records, batch, way,
      step, tx, db, executed, outcome, opts, query, base, lastCall, route, filled>>

----------------------------------------------------------------------------
(* Bounds of the model *)

\* Every text over Alphabet of at most this length is a body.
MaxBodyLen == 3

\* Longest Vec<u8> value whose encoding is a body.
MaxVecLen == 2

\* Longest vector of items a batch is derived from.
MaxItems == 3

----------------------------------------------------------------------------
(* Characters and texts *)

Quote == "\""

Backslash == "\\"

LF == "\n"

Space == " "

NullText == <<"n", "u", "l", "l">>

DigitChars == <<"0", "1", "2", "3", "4", "5", "6", "7", "8", "9">>

IsDigit(c) == \E d \in 1..10 : DigitChars[d] = c

DigitVal(c) == (CHOOSE d \in 1..10 : DigitChars[d] = c) - 1

IsWhitespace(c) == c \in {Space, LF, "\t", "\r"}

IsControl(c) == c \in {LF, "\t", "\r"}

U8Max == 255

----------------------------------------------------------------------------
(* Values of the target types *)

UnitV == [t |-> "unit"]

StrV(s) == [t |-> "str", s |-> s]

NumV(n) == [t |-> "num", n |-> n]

NoneV == [t |-> "none"]

SomeV(v) == [t |-> "some", v |-> v]

SeqV(items) == [t |-> "seq", items |-> items]

TestData(foo, bar, baz) == [t |-> "TestData", foo |-> foo, bar |-> bar, baz |-> baz]

IgnoredV == [t |-> "ignored"]

\* The target types R the model instantiates decode with.
Types == {"Unit", "Str", "U64", "OptU8", "OptStr", "VecU8", "TestData"}

IsOption(T) == T \in {"OptU8", "OptStr"}

Inner(T) == IF T = "OptU8" THEN "U8" ELSE "Str"

Foo == <<"f", "o", "o">>

Bar == <<"b", "a", "r">>

Baz == <<"b", "a", "z">>

----------------------------------------------------------------------------
(* serde_json: the deserializer.  A parsing step hands its result to the     *)
(* operator that continues with it, as an argument.                        *)

Parsed(v, n) == [ok |-> TRUE, val |-> v, next |-> n]

Failed(code) == [ok |-> FALSE, err |-> code]

WithVal(r, v) == IF r.ok THEN Parsed(v, r.next) ELSE r

EofValue == "EOF while parsing a value"

RECURSIVE ParseWhitespace(_, _)
ParseWhitespace(s, i) ==
    IF i <= Len(s) /\ IsWhitespace(s[i]) THEN ParseWhitespace(s, i + 1) ELSE i

\* parse_ident: the characters after the first one, which the caller has eaten.
RECURSIVE ParseIdent(_, _, _)
ParseIdent(s, i, rest) ==
    IF rest = <<>> THEN Parsed(IgnoredV, i)
    ELSE IF i > Len(s) THEN Failed(EofValue)
    ELSE IF s[i] # Head(rest) THEN Failed("expected ident")
    ELSE ParseIdent(s, i + 1, Tail(rest))

ParseNull(s, i) == ParseIdent(s, i + 1, <<"u", "l", "l">>)

IsEscape(c) == c \in {Quote, Backslash, "/", "n", "t", "r"}

Unescape(c) ==
    CASE c = "n" -> LF
      [] c = "t" -> "\t"
      [] c = "r" -> "\r"
      [] OTHER -> c

\* parse_str: i is the index after the opening quote.
RECURSIVE ParseStr(_, _, _)
ParseStr(s, i, acc) ==
    IF i > Len(s) THEN Failed("EOF while parsing a string")
    ELSE IF s[i] = Quote THEN Parsed(acc, i + 1)
    ELSE IF s[i] = Backslash THEN
        IF i + 1 > Len(s) THEN Failed("EOF while parsing a string")
        ELSE IF IsEscape(s[i + 1])
             THEN ParseStr(s, i + 2, Append(acc, Unescape(s[i + 1])))
             ELSE Failed("invalid escape")
    ELSE IF IsControl(s[i])
         THEN Failed("control character found while parsing a string")
    ELSE ParseStr(s, i + 1, Append(acc, s[i]))

RECURSIVE ParseDigits(_, _, _)
ParseDigits(s, i, acc) ==
    IF i <= Len(s) /\ IsDigit(s[i])
    THEN ParseDigits(s, i + 1, acc * 10 + DigitVal(s[i]))
    ELSE Parsed(acc, i)

\* parse_integer: s[i] is a digit; a leading zero may not be followed by a digit.
ParseInteger(s, i) ==
    IF s[i] = "0"
    THEN IF i + 1 <= Len(s) /\ IsDigit(s[i + 1])
         THEN Failed("invalid number")
         ELSE Parsed(0, i + 1)
    ELSE ParseDigits(s, i, 0)

\* peek_invalid_type: the value at j is not of the shape the target expects.
PeekInvalidType(s, j) ==
    LET c == s[j]
        asType(r) == IF r.ok THEN Failed("invalid type") ELSE r
    IN  IF c = "n" THEN asType(ParseNull(s, j))
        ELSE IF c = "t" THEN asType(ParseIdent(s, j + 1, <<"r", "u", "e">>))
        ELSE IF c = "f" THEN asType(ParseIdent(s, j + 1, <<"a", "l", "s", "e">>))
        ELSE IF IsDigit(c) THEN asType(ParseInteger(s, j))
        ELSE IF c = Quote THEN asType(ParseStr(s, j + 1, <<>>))
        ELSE IF c \in {"[", "{"} THEN Failed("invalid type")
        ELSE Failed("expected value")

\* The type of a field of TestData; unknown fields are skipped.
FieldType(key) ==
    IF key = Foo THEN "U64"
    ELSE IF key = Bar THEN "Str"
    ELSE IF key = Baz THEN "OptU8"
    ELSE "IgnoredAny"

\* end_seq: after the visitor has stopped reading elements.
EndSeq(s, i, v) ==
    LET j == ParseWhitespace(s, i)
    IN  IF j > Len(s) THEN Failed("EOF while parsing a list")
        ELSE IF s[j] = "]" THEN Parsed(v, j + 1)
        ELSE IF s[j] = ","
             THEN LET k == ParseWhitespace(s, j + 1)
                  IN  IF k <= Len(s) /\ s[k] = "]"
                      THEN Failed("trailing comma")
                      ELSE Failed("trailing characters")
        ELSE Failed("trailing characters")

\* parse_object_colon
ParseObjectColon(s, i) ==
    LET j == ParseWhitespace(s, i)
    IN  IF j > Len(s) THEN Failed("EOF while parsing an object")
        ELSE IF s[j] = ":" THEN Parsed(IgnoredV, j + 1)
        ELSE Failed("expected colon")

\* MapAccess::next_key_seed: val is <<>> at the closing brace, <<key>> otherwise.
NextKey(s, i, first) ==
    LET j == ParseWhitespace(s, i)
        keyAt(k) ==
            IF k > Len(s) THEN Failed(EofValue)
            ELSE IF s[k] = Quote
                 THEN LET r == ParseStr(s, k + 1, <<>>)
                      IN  IF r.ok THEN Parsed(<<r.val>>, r.next) ELSE r
            ELSE IF s[k] = "}" THEN Failed("trailing comma")
            ELSE Failed("key must be a string")
    IN  IF j > Len(s) THEN Failed("EOF while parsing an object")
        ELSE IF s[j] = "}" THEN Parsed(<<>>, j)
        ELSE IF s[j] = "," /\ ~first THEN keyAt(ParseWhitespace(s, j + 1))
        ELSE IF first THEN keyAt(j)
        ELSE Failed("expected comma or closing brace")

RECURSIVE Deserialize(_, _, _)
RECURSIVE NextElement(_, _, _, _)
RECURSIVE VisitSeq(_, _, _, _, _)
RECURSIVE VisitMap(_, _, _, _, _)
RECURSIVE TestDataVisitSeq(_, _, _)

\* An element has been deserialized as r: val is <<element>>.
Element(r) == IF r.ok THEN Parsed(<<r.val>>, r.next) ELSE r

\* SeqAccess::next_element_seed: val is <<>> at the closing bracket, <<element>>
\* otherwise; k is where the element starts when one has to follow.
ElementAt(T, s, k) ==
    IF k > Len(s) THEN Failed(EofValue)
    ELSE IF s[k] = "]" THEN Failed("trailing comma")
    ELSE Element(Deserialize(T, s, k))

NextElementAt(T, s, j, first) ==
    IF j > Len(s) THEN Failed("EOF while parsing a list")
    ELSE IF s[j] = "]" THEN Parsed(<<>>, j)
    ELSE IF s[j] = "," /\ ~first THEN ElementAt(T, s, ParseWhitespace(s, j + 1))
    ELSE IF first THEN ElementAt(T, s, j)
    ELSE Failed("expected comma or closing bracket")

NextElement(T, s, i, first) == NextElementAt(T, s, ParseWhitespace(s, i), first)

\* Vec<T>'s visitor: reads elements until the closing bracket; e is what
\* next_element returned, acc the elements read before it.
VisitSeqElement(T, s, acc, e) ==
    IF ~e.ok THEN e
    ELSE IF e.val = <<>> THEN Parsed(acc, e.next)
    ELSE VisitSeq(T, s, e.next, FALSE, Append(acc, e.val[1]))

VisitSeq(T, s, i, first, acc) ==
    VisitSeqElement(T, s, acc, NextElement(T, s, i, first))

\* acc with the field key set to v.
Put(acc, key, v) ==
    [f \in DOMAIN acc \cup {key} |-> IF f = key THEN v ELSE acc[f]]

\* The value of a member has been deserialized as v: keep it, read on.
MapValue(known, s, acc, key, T, v) ==
    IF ~v.ok THEN v
    ELSE VisitMap(known, s, v.next, FALSE,
                  IF T = "IgnoredAny" THEN acc ELSE Put(acc, key, v.val))

\* After the key of a member: the colon, then the value.
MapColon(known, s, acc, key, T, colon) ==
    IF ~colon.ok THEN colon
    ELSE MapValue(known, s, acc, key, T, Deserialize(T, s, colon.next))

\* The key of a member has been read: a field given twice is an error, an
\* unknown field's value is skipped (IgnoredAny).
MapEntry(known, s, i, acc, key, T) ==
    IF T # "IgnoredAny" /\ key \in DOMAIN acc THEN Failed("duplicate field")
    ELSE MapColon(known, s, acc, key, T, ParseObjectColon(s, i))

MapKey(known, s, acc, k) ==
    IF ~k.ok THEN k
    ELSE IF k.val = <<>> THEN Parsed(acc, k.next)
    ELSE MapEntry(known, s, k.next, acc, k.val[1],
                  IF known THEN FieldType(k.val[1]) ELSE "IgnoredAny")

\* A derived struct visitor's visit_map; with known = FALSE every field is
\* skipped.  acc maps the fields read so far to their values.
VisitMap(known, s, i, first, acc) == MapKey(known, s, acc, NextKey(s, i, first))

NoFields == [f \in {} |-> IgnoredV]

FieldOrder == <<Foo, Bar, Baz>>

\* TestData's visit_seq: one element per field, in declaration order; acc holds
\* the elements read so far, e is what next_element returned.
TestDataElement(s, acc, e) ==
    IF ~e.ok THEN e
    ELSE IF e.val = <<>> THEN Failed("invalid length")
    ELSE TestDataVisitSeq(s, e.next, Append(acc, e.val[1]))

TestDataVisitSeq(s, i, acc) ==
    IF Len(acc) = Len(FieldOrder) THEN Parsed(acc, i)
    ELSE TestDataElement(s, acc,
             NextElement(FieldType(FieldOrder[Len(acc) + 1]), s, i, acc = <<>>))

\* deserialize_seq: the visitor's result r, then end_seq.
SeqEnd(s, r, v) == IF r.ok THEN EndSeq(s, r.next, v) ELSE r

VecOfSeq(s, r) == IF r.ok THEN EndSeq(s, r.next, SeqV(r.val)) ELSE r

TestDataOfSeq(s, r) ==
    IF ~r.ok THEN r
    ELSE EndSeq(s, r.next, TestData(r.val[1].n, r.val[2].s, r.val[3]))

\* Mutant: baz is required like the other fields.
TestDataOfMapBazRequired(m) ==
    IF ~m.ok THEN m
    ELSE IF \E f \in {Foo, Bar, Baz} : f \notin DOMAIN m.val
         THEN Failed("missing field")
    ELSE Parsed(TestData(m.val[Foo].n, m.val[Bar].s, m.val[Baz]), m.next + 1)

\* TestData's visit_map result m: foo and bar are required, baz defaults to
\* None; then end_map eats the closing brace.
TestDataOfMap(m) ==
    IF ~m.ok THEN m
    ELSE IF Foo \notin DOMAIN m.val THEN Failed("missing field")
    ELSE IF Bar \notin DOMAIN m.val THEN Failed("missing field")
    ELSE Parsed(TestData(m.val[Foo].n, m.val[Bar].s,
                    IF Baz \in DOMAIN m.val THEN m.val[Baz] ELSE NoneV),
                m.next + 1)

\* visit_some: the option's inner value has been deserialized as r.
Some(r) == IF r.ok THEN Parsed(SomeV(r.val), r.next) ELSE r

StrOf(r) == IF r.ok THEN Parsed(StrV(r.val), r.next) ELSE r

\* visit_u64 of an integer type: u8 rejects what it cannot hold.
NumOf(T, r) ==
    IF ~r.ok THEN r
    ELSE IF T = "U8" /\ r.val > U8Max THEN Failed("invalid value")
    ELSE Parsed(NumV(r.val), r.next)

\* IgnoredAny of an object: the members have been skipped, eat the brace.
IgnoredMap(r) == IF r.ok THEN Parsed(IgnoredV, r.next + 1) ELSE r

\* T::deserialize(&mut Deserializer), the next value starting at j.
DeserializeAt(T, s, j) ==
    IF IsOption(T) THEN
        IF j <= Len(s) /\ s[j] = "n"
        THEN WithVal(ParseNull(s, j), NoneV)
        ELSE Some(Deserialize(Inner(T), s, j))
    ELSE IF j > Len(s) THEN Failed(EofValue)
    ELSE IF T = "Unit" THEN
        IF s[j] = "n" THEN WithVal(ParseNull(s, j), UnitV)
        ELSE PeekInvalidType(s, j)
    ELSE IF T = "Str" THEN
        IF s[j] = Quote THEN StrOf(ParseStr(s, j + 1, <<>>))
        ELSE PeekInvalidType(s, j)
    ELSE IF T \in {"U8", "U64"} THEN
        IF IsDigit(s[j]) THEN NumOf(T, ParseInteger(s, j))
        ELSE PeekInvalidType(s, j)
    ELSE IF T = "VecU8" THEN
        IF s[j] = "[" THEN VecOfSeq(s, VisitSeq("U8", s, j + 1, TRUE, <<>>))
        ELSE PeekInvalidType(s, j)
    ELSE IF T = "TestData" THEN
        IF s[j] = "[" THEN TestDataOfSeq(s, TestDataVisitSeq(s, j + 1, <<>>))
        ELSE IF s[j] = "{" THEN TestDataOfMap(VisitMap(TRUE, s, j + 1, TRUE, NoFields))
        ELSE PeekInvalidType(s, j)
    ELSE \* IgnoredAny: any JSON value
        IF s[j] = "n" THEN ParseNull(s, j)
        ELSE IF s[j] = "t" THEN ParseIdent(s, j + 1, <<"r", "u", "e">>)
        ELSE IF s[j] = "f" THEN ParseIdent(s, j + 1, <<"a", "l", "s", "e">>)
        ELSE IF IsDigit(s[j]) THEN WithVal(ParseInteger(s, j), IgnoredV)
        ELSE IF s[j] = Quote THEN WithVal(ParseStr(s, j + 1, <<>>), IgnoredV)
        ELSE IF s[j] = "["
             THEN SeqEnd(s, VisitSeq("IgnoredAny", s, j + 1, TRUE, <<>>), IgnoredV)
        ELSE IF s[j] = "{"
             THEN IgnoredMap(VisitMap(FALSE, s, j + 1, TRUE, NoFields))
        ELSE Failed("expected value")

Deserialize(T, s, i) == DeserializeAt(T, s, ParseWhitespace(s, i))

\* A serde_json error description: its code, and whether the position
\* " at line L column C" follows it.
Description(code, positioned) == [code |-> code, positioned |-> positioned]

DeOk(v) == [ok |-> TRUE, val |-> v]

DeErr(code, positioned) == [ok |-> FALSE, err |-> Description(code, positioned)]

\* Deserializer::end: only whitespace may follow the value r.
End(s, r) ==
    IF ~r.ok THEN DeErr(r.err, TRUE)
    ELSE IF ParseWhitespace(s, r.next) <= Len(s)
         THEN DeErr("trailing characters", TRUE)
         ELSE DeOk(r.val)

\* serde_json::from_str::<T>(s): deserialize, then Deserializer::end.
FromStr(T, s) == End(s, Deserialize(T, s, 1))

\* Mutant: the string value keeps the quotes of its JSON form.
FromValueStringQuoted(T, s) ==
    IF T = "Str" THEN DeOk(StrV(<<Quote>> \o s \o <<Quote>>))
    ELSE IF T = "OptStr" THEN DeOk(SomeV(StrV(<<Quote>> \o s \o <<Quote>>)))
    ELSE DeErr("invalid type", FALSE)

\* serde_json::from_value::<T>(Value::String(s)): only a string, or an option
\* of one, accepts a string value.
FromValueString(T, s) ==
    IF T = "Str" THEN DeOk(StrV(s))
    ELSE IF T = "OptStr" THEN DeOk(SomeV(StrV(s)))
    ELSE DeErr("invalid type", FALSE)

----------------------------------------------------------------------------
(* serde_json: the serializer, as the tests use it to build bodies *)

EscapeChar(c) ==
    CASE c = Quote -> <<Backslash, Quote>>
      [] c = Backslash -> <<Backslash, Backslash>>
      [] c = LF -> <<Backslash, "n">>
      [] c = "\t" -> <<Backslash, "t">>
      [] c = "\r" -> <<Backslash, "r">>
      [] OTHER -> <<c>>

RECURSIVE Escape(_)
Escape(s) == IF s = <<>> THEN <<>> ELSE EscapeChar(Head(s)) \o Escape(Tail(s))

JsonString(s) == <<Quote>> \o Escape(s) \o <<Quote>>

RECURSIVE Numeral(_)
Numeral(n) ==
    IF n < 10 THEN <<DigitChars[n + 1]>>
    ELSE Numeral(n \div 10) \o <<DigitChars[(n % 10) + 1]>>

RECURSIVE ToJson(_)
RECURSIVE JoinJson(_)
JoinJson(items) ==
    IF items = <<>> THEN <<>>
    ELSE IF Len(items) = 1 THEN ToJson(items[1])
    ELSE ToJson(items[1]) \o <<",">> \o JoinJson(Tail(items))

Member(key, text) == JsonString(key) \o <<":">> \o text

\* serde_json::to_string of a value (json!(v).to_string() in the tests).
ToJson(v) ==
    CASE v.t \in {"unit", "none"} -> NullText
      [] v.t = "str" -> JsonString(v.s)
      [] v.t = "num" -> Numeral(v.n)
      [] v.t = "some" -> ToJson(v.v)
      [] v.t = "seq" -> <<"[">> \o JoinJson(v.items) \o <<"]">>
      [] v.t = "TestData" ->
            <<"{">> \o Member(Foo, Numeral(v.foo)) \o <<",">>
                    \o Member(Bar, JsonString(v.bar)) \o <<",">>
                    \o Member(Baz, ToJson(v.baz)) \o <<"}">>

----------------------------------------------------------------------------
(* The inputs of the model *)

Hello == <<"h", "e", "l", "l", "o", " ", "w", "o", "r", "l", "d">>

\* "hello \nmy\" world" of test::process_string, shortened.
HelloMy == <<"h", "i", " ", LF, "m", "y", Quote, " ", "w">>

Invalid == <<"i", "n", "v", "a", "l", "i", "d">>

MyBar == <<"m", "y", "b", "a", "r">>

StrValues == {<<>>, <<"a">>, <<Quote>>, <<Backslash>>, <<LF>>, <<"1">>,
              NullText, Hello, HelloMy, MyBar}

U8Values == {0, 7, U8Max}

U64Values == {0, 12, 1234}

OptU8Values == {NoneV} \cup {SomeV(NumV(n)) : n \in U8Values}

VecValues == UNION {[1..n -> {NumV(1), NumV(20)}] : n \in 0..MaxVecLen}

\* The values of a target type whose encodings are bodies of the model.
Values(T) ==
    CASE T = "Unit" -> {UnitV}
      [] T = "Str" -> {StrV(s) : s \in StrValues}
      [] T = "U64" -> {NumV(n) : n \in U64Values}
      [] T = "OptU8" -> OptU8Values
      [] T = "OptStr" -> {NoneV} \cup {SomeV(StrV(s)) : s \in {<<>>, NullText, Hello}}
      [] T = "VecU8" -> {SeqV(items) : items \in VecValues}
      [] T = "TestData" ->
            {TestData(foo, bar, baz) :
                foo \in {0, 12}, bar \in {<<>>, MyBar}, baz \in {NoneV, SomeV(NumV(7))}}

EncodedBodies == UNION {{ToJson(v) : v \in Values(T)} : T \in Types}

Object(members) == <<"{">> \o members \o <<"}">>

\* Objects that give foo and bar and leave baz out, in both orders, with and
\* without whitespace and an unknown field.
PartialObject(foo, bar, variant) ==
    CASE variant = 1 ->
            Object(Member(Foo, Numeral(foo)) \o <<",">> \o Member(Bar, JsonString(bar)))
      [] variant = 2 ->
            Object(Member(Bar, JsonString(bar)) \o <<",">> \o Member(Foo, Numeral(foo)))
      [] variant = 3 ->
            Object(<<Space>> \o Member(Foo, Numeral(foo)) \o <<Space, ",", LF>>
                   \o Member(Bar, JsonString(bar)) \o <<Space>>)
      [] variant = 4 ->
            Object(Member(Foo, Numeral(foo)) \o <<",">>
                   \o Member(<<"x">>, <<"[", "1", ",", "{", "}", "]">>) \o <<",">>
                   \o Member(Bar, JsonString(bar)))

PartialObjects ==
    {PartialObject(foo, bar, variant) :
        foo \in {0, 12}, bar \in {<<>>, MyBar}, variant \in 1..4}

\* Bodies that are not the encoding of a TestData: a field of the wrong type
\* (test::process_invalid_body), a missing or duplicate field, malformed
\* brackets, numbers out of range, and bare text.
MalformedBodies ==
    { Object(Member(Foo, JsonString(<<"1", "2">>)) \o <<",">>
             \o Member(Bar, JsonString(MyBar))),
      Object(Member(Foo, Numeral(12))),
      Object(Member(Bar, JsonString(MyBar))),
      Object(Member(Foo, Numeral(1)) \o <<",">> \o Member(Foo, Numeral(2))
             \o <<",">> \o Member(Bar, JsonString(<<>>))),
      Object(Member(Foo, Numeral(12)) \o <<",">> \o Member(Bar, JsonString(MyBar))
             \o <<",">>),
      Object(Member(Foo, Numeral(12)) \o <<",">> \o Member(Bar, JsonString(MyBar))
             \o <<",">> \o Member(Baz, Numeral(256))),
      Object(<<>>),
      <<"[", "1", "2", ",", Quote, "a", Quote, ",", "7", "]">>,
      <<"[", "1", "2", ",", Quote, "a", Quote, "]">>,
      <<"[", "1", ",", "]">>,
      <<"[", "1", " ", "2", "]">>,
      <<"[", "1">>,
      <<"[", "2", "5", "6", "]">>,
      <<"2", "5", "6">>,
      <<"t", "r", "u", "e">>,
      <<"n", "u", "l">>,
      <<"n", "u", "l", "l", "l">>,
      <<Space, "n", "u", "l", "l", LF>>,
      <<Quote, "a", Quote, "b">>,
      <<Quote, "a", LF, Quote>>,
      Hello, HelloMy, Invalid }

ErrorKey == <<"e", "r", "r", "o", "r">>

MessageKey == <<"m", "e", "s", "s", "a", "g", "e">>

\* The serialization of a GenericError: {"error":"..","message":".."}.
ErrorObject(error, message) ==
    Object(Member(ErrorKey, JsonString(error)) \o <<",">>
           \o Member(MessageKey, JsonString(message)))

ErrorTexts == {<<>>, Invalid, MyBar}

\* Bodies a server sends with an error status: structured error objects.
ErrorObjects == {ErrorObject(e, m) : e \in ErrorTexts, m \in ErrorTexts}

Alphabet == {Quote, "a", "1", "0", Space, Backslash, "n"}

ShortBodies == UNION {[1..n -> Alphabet] : n \in 0..MaxBodyLen}

Bodies ==
    ShortBodies \cup EncodedBodies \cup PartialObjects \cup MalformedBodies
        \cup ErrorObjects

Statuses == {200, 201, 204, 399, 400, 418, 599, 600}

\* A header of a reqwest response: its value is visible ASCII, or it is not
\* and HeaderValue::to_str fails.
Header(name, value, visible) == [name |-> name, value |-> value, visible |-> visible]

\* The header of TestResponse::raw, followed by a header whose value is not
\* visible ASCII.
OpaqueHeaders == <<Header("foo", "bar", TRUE), Header("x-id", "opaque", FALSE)>>

\* Two headers of one name.
RepeatedHeaders == <<Header("foo", "bar", TRUE), Header("foo", "baz", TRUE)>>

HeaderLists ==
    { <<>>, <<Header("foo", "bar", TRUE)>>, OpaqueHeaders, RepeatedHeaders }

\* Response::text() gives the body text, or fails while the body is received.
TextOk(s) == [ok |-> TRUE, text |-> s]

TextFailed == [ok |-> FALSE, text |-> <<>>]

Responses ==
    [status : Statuses, headers : HeaderLists,
     text : {TextOk(s) : s \in Bodies} \cup {TextFailed}]

----------------------------------------------------------------------------
(* Response and GenericError *)

\* GenericError::new(error): the message starts empty.
GenericErrorNew(error) == [error |-> error, message |-> <<>>]

\* GenericError::with_message
WithMessage(e, message) == [e EXCEPT !.message = message]

NoResult == [kind |-> "none"]

\* No response has been received yet.
NoResponse == [kind |-> "none"]

\* No transport failure has happened.
NoFault == [code |-> "none"]

\* No batch has been constructed.
NoBatch == [t |-> "none"]

\* No batch is in use while a response is decoded or a request dispatched.
NoBatchInUse == records = <<>> /\ batch = NoBatch /\ way = "none"

\* No call on a database is in progress.
NoOutcome == [kind |-> "none"]

NoTransaction == [state |-> "none"]

NoDatabaseInUse ==
    /\ step = "idle"
    /\ tx = NoTransaction
    /\ db = [names |-> {}, rows |-> <<>>]
    /\ executed = <<>>
    /\ outcome = NoOutcome
    /\ opts = [database |-> "none"]

\* No query is being built and no route filled.
NoQuery == [t |-> "none"]

NoCall == [op |-> "none"]

NoRoute == [t |-> "none"]

NoFilled == [t |-> "none"]

NoTextInUse ==
    /\ query = NoQuery
    /\ base = <<>>
    /\ lastCall = NoCall
    /\ route = NoRoute
    /\ filled = NoFilled

\* No call of bc-api-client is in progress while a batch is built.
NoCallInProgress ==
    /\ response = NoResponse
    /\ target = "Unit"
    /\ result = NoResult
    /\ pc = "idle"
    /\ call = "none"
    /\ sends = 0
    /\ fault = NoFault

IsClientError(status) == 400 <= status /\ status < 500

IsServerError(status) == 500 <= status /\ status < 600

\* "status is error".to_string()
StatusIsErrorText == Description("status is error", FALSE)

----------------------------------------------------------------------------
(* try_from and decode *)

\* Mutant: the empty message is left as it is.
KeepEmpty(message) == message

\* if message.is_empty() { message.push_str("null") }
NormalizeEmpty(message) == IF message = <<>> THEN NullText ELSE message

\* Mutant: only a server error counts as an error status.
OnlyServerError(status) == IsServerError(status)

StatusIsError(status) == IsClientError(status) \/ IsServerError(status)

\* Mutant: an error status is reported as 400.
StatusErrorAsBadRequest(status, headers, message) ==
    [kind |-> "Err", status |-> 400, headers |-> headers,
     body |-> WithMessage(GenericErrorNew(StatusIsErrorText), message)]

\* The message of a structured error object, the text itself otherwise.
StructuredMessage(message) ==
    IF message \in ErrorObjects
    THEN CHOOSE m \in ErrorTexts : \E e \in ErrorTexts : message = ErrorObject(e, m)
    ELSE message

\* Mutant: the message of a structured error object is preferred to the text.
StatusErrorStructured(status, headers, message) ==
    [kind |-> "Err", status |-> status, headers |-> headers,
     body |-> WithMessage(GenericErrorNew(StatusIsErrorText),
                          StructuredMessage(message))]

\* The Err returned for an error status.
StatusError(status, headers, message) ==
    [kind |-> "Err", status |-> status, headers |-> headers,
     body |-> WithMessage(GenericErrorNew(StatusIsErrorText), message)]

\* The Ok returned when the body deserialized, directly or through the fallback.
OkResponse(status, headers, body) ==
    [kind |-> "Ok", status |-> status, headers |-> headers, body |-> body]

\* Mutant: a decode failure keeps the received status.
DecodeFailureKeepsStatus(status, headers, error, message) ==
    [kind |-> "Err", status |-> status, headers |-> headers,
     body |-> WithMessage(GenericErrorNew(error), message)]

\* Mutant: a decode failure carries the marker of a status failure as error.
DecodeFailureWithMarker(status, headers, error, message) ==
    [kind |-> "Err", status |-> 400, headers |-> headers,
     body |-> WithMessage(GenericErrorNew(StatusIsErrorText), message)]

\* Mutant: a decode failure does not carry the headers.
DecodeFailureWithoutHeaders(status, headers, error, message) ==
    [kind |-> "Err", status |-> 400, headers |-> <<>>,
     body |-> WithMessage(GenericErrorNew(error), message)]

\* The Err returned when neither attempt deserialized the body.
DecodeFailure(status, headers, error, message) ==
    [kind |-> "Err", status |-> 400, headers |-> headers,
     body |-> WithMessage(GenericErrorNew(error), message)]

\* Mutant: the fallback decodes null when the body did not deserialize.
FallbackToNull(T, message) == FromStr(T, NullText)

\* Mutant: there is no fallback.
NoFallback(T, message) == DeErr("invalid type", FALSE)

\* The fallback: serde_json::from_value::<R>(json!(message)).
Fallback(T, message) == FromValueString(T, message)

\* The Err(error) arm: second is what the fallback returned.
FallbackArm(status, headers, message, error, second) ==
    IF second.ok THEN OkResponse(status, headers, second.val)
    ELSE DecodeFailure(status, headers, error, message)

\* The arms of the match: first is what from_str returned.
MatchArms(status, headers, message, T, first) ==
    IF first.ok THEN OkResponse(status, headers, first.val)
    ELSE FallbackArm(status, headers, message, first.err, Fallback(T, message))

\* Mutant: the cast into a JSON string is tried before the structured decode.
CastFirstArm(status, headers, message, T, second) ==
    IF second.ok THEN OkResponse(status, headers, second.val)
    ELSE MatchArms(status, headers, message, T, FromStr(T, message))

DecodeBodyCastFirst(status, headers, message, T) ==
    CastFirstArm(status, headers, message, T, Fallback(T, message))

\* match serde_json::from_str::<R>(&message) { ... }
DecodeBody(status, headers, message, T) ==
    MatchArms(status, headers, message, T, FromStr(T, message))

\* The body of try_from after the empty message has been normalized.
Classify(status, headers, message, T) ==
    IF StatusIsError(status)
    THEN StatusError(status, headers, message)
    ELSE DecodeBody(status, headers, message, T)

\* Response::<R>::try_from((status, headers, message))
TryFrom(status, headers, received, T) ==
    Classify(status, headers, NormalizeEmpty(received), T)

\* The HashMap decode collects the headers into: to_str().unwrap_or_default()
\* of each value, a later header of the same name replacing an earlier one.
HeaderMap(list) ==
    [name \in {list[i].name : i \in DOMAIN list} |->
        LET last == CHOOSE i \in DOMAIN list :
                        /\ list[i].name = name
                        /\ \A j \in DOMAIN list : list[j].name = name => j <= i
        IN  IF list[last].visible THEN list[last].value ELSE ""]

\* response.text().await.unwrap_or_default()
TextOrDefault(text) == IF text.ok THEN text.text ELSE <<>>

\* Mutant: the body text is unwrapped, and a failed body read panics.
DecodeUnwrapsText(resp, T) ==
    IF resp.text.ok
    THEN TryFrom(resp.status, HeaderMap(resp.headers), resp.text.text, T)
    ELSE [kind |-> "panic"]

\* Response::<R>::decode(response)
DecodeResponse(resp, T) ==
    TryFrom(resp.status, HeaderMap(resp.headers), TextOrDefault(resp.text), T)

----------------------------------------------------------------------------
(* The state machine: a response has been received for a call whose target *)
(* type is fixed at compile time, and decode is applied to it.             *)

Init ==
    /\ response \in Responses
    /\ target \in Types
    /\ result = NoResult
    /\ pc = "received"
    /\ call = "decode"
    /\ sends = 0
    /\ fault = NoFault
    /\ NoBatchInUse
    /\ NoDatabaseInUse
    /\ NoTextInUse

Decode ==
    /\ pc = "received"
    /\ result' = DecodeResponse(response, target)
    /\ pc' = "done"
    /\ UNCHANGED <<response, target, call, sends, fault, notApiVars>>

Next == Decode

Spec == Init /\ [][Next]_vars

----------------------------------------------------------------------------
(* dispatch of request.rs: the request is sent, status and headers of the  *)
(* response are read, the body bytes are received, and the status decides  *)
(* between Ok and Err.  dispatch_empty, dispatch_text and dispatch_json    *)
(* convert the body of what dispatch returned.  send().await and           *)
(* bytes().await are the two suspension points; each may fail.             *)

Calls == {"dispatch", "dispatch_empty", "dispatch_text", "dispatch_json"}

\* The body type of the ApiResult each call returns.
CallTypes(c) ==
    CASE c = "dispatch" -> {"Bytes"}
      [] c = "dispatch_empty" -> {"Unit"}
      [] c = "dispatch_text" -> {"Str"}
      [] c = "dispatch_json" -> Types

\* e.to_string() of the reqwest::Error of a failed send.
SendErrors ==
    {Description("error sending request", FALSE),
     Description("operation timed out", FALSE)}

\* e.to_string() of the reqwest::Error of a failed body read.
BodyErrors ==
    {Description("error decoding response body", FALSE),
     Description("operation timed out", FALSE)}

\* The bodies a dispatched request is answered with.
DispatchBodies ==
    {<<>>} \cup EncodedBodies \cup PartialObjects \cup MalformedBodies
        \cup ErrorObjects

DispatchResponses ==
    [status : Statuses, headers : HeaderLists,
     text : {TextOk(s) : s \in DispatchBodies} \cup {TextFailed}]

\* The body of Response<Vec<u8>>.
BytesV(s) == [t |-> "bytes", s |-> s]

\* Response::new(): no headers and an empty body.
ResponseNew == [status |-> 200, headers |-> HeaderMap(<<>>), body |-> <<>>]

\* Response::with_headers
WithHeaders(r, headers) == [r EXCEPT !.headers = headers]

\* Response::with_body
WithBody(r, body) == [r EXCEPT !.body = body]

\* Response::bad_request(error): status 400 and the error, headers kept.
BadRequest(r, error) ==
    [kind |-> "Err", status |-> 400, headers |-> r.headers,
     body |-> GenericErrorNew(error)]

\* Response::error(status, error): the status and the error, headers kept,
\* the body text as message.
ResponseError(r, status, error) ==
    [kind |-> "Err", status |-> status, headers |-> r.headers,
     body |-> WithMessage(GenericErrorNew(error), r.body)]

\* Response::with_status
WithStatus(r, status) == OkResponse(status, r.headers, BytesV(r.body))

\* Response::empty
Empty(r) == [r EXCEPT !.body = UnitV]

\* Response::text
Text(r) == [r EXCEPT !.body = StrV(r.body.s)]

\* Response::json: the empty body is null, the body is deserialized as T, a
\* string-like T falls back to the bare text, and a failure is Err 400.
Json(r, T) == DecodeBody(r.status, r.headers, NormalizeEmpty(r.body.s), T)

\* format!("request failed with {status}")
RequestFailedWith(status) == [code |-> "request failed with", status |-> status]

\* Mutant: a transport failure is reported as a server error.
TransportFailureAsServerError(e) ==
    [kind |-> "Err", status |-> 500, headers |-> HeaderMap(<<>>),
     body |-> GenericErrorNew(e)]

\* map_err(|e| Response::new().bad_request(e.to_string()))
TransportFailure(e) == BadRequest(ResponseNew, e)

\* Mutant: a failed call goes back to sending.
RetryAfterFailure == "start"

\* The ? operator on a transport failure: dispatch returns.
AfterFailure == "done"

\* Mutant: every status is Ok.
StatusNeverFails(status) == FALSE

\* status.is_client_error() || status.is_server_error()
RequestFailed(status) == IsClientError(status) \/ IsServerError(status)

\* The end of dispatch, once the bytes have been received.
Dispatched(status, headers, bytes) ==
    IF RequestFailed(status)
    THEN ResponseError(WithBody(WithHeaders(ResponseNew, headers), bytes),
                       status, RequestFailedWith(status))
    ELSE WithStatus(WithBody(WithHeaders(ResponseNew, headers), bytes), status)

\* dispatch, dispatch_empty, dispatch_text, dispatch_json applied to what
\* dispatch returned: ? passes an Err on, an Ok is converted.
Convert(c, T, r) ==
    IF r.kind = "Err" THEN r
    ELSE CASE c = "dispatch" -> r
           [] c = "dispatch_empty" -> Empty(r)
           [] c = "dispatch_text" -> Text(r)
           [] c = "dispatch_json" -> Json(r, T)

DispatchInit ==
    /\ call \in Calls
    /\ target \in CallTypes(call)
    /\ response = NoResponse
    /\ result = NoResult
    /\ pc = "start"
    /\ sends = 0
    /\ fault = NoFault
    /\ NoBatchInUse
    /\ NoDatabaseInUse
    /\ NoTextInUse

\* send().await fails.
SendFails ==
    /\ pc = "start"
    /\ \E e \in SendErrors :
          /\ fault' = e
          /\ result' = TransportFailure(e)
    /\ sends' = sends + 1
    /\ pc' = AfterFailure
    /\ UNCHANGED <<response, target, call, notApiVars>>

\* send().await returns a response; status and headers are read.
SendSucceeds ==
    /\ pc = "start"
    /\ response' \in DispatchResponses
    /\ sends' = sends + 1
    /\ pc' = "sent"
    /\ UNCHANGED <<target, result, call, fault, notApiVars>>

\* bytes().await fails.
BytesFail ==
    /\ pc = "sent"
    /\ ~response.text.ok
    /\ \E e \in BodyErrors :
          /\ fault' = e
          /\ result' = TransportFailure(e)
    /\ pc' = AfterFailure
    /\ UNCHANGED <<response, target, call, sends, notApiVars>>

\* bytes().await returns the body; the call runs to its end.
BytesReceived ==
    /\ pc = "sent"
    /\ response.text.ok
    /\ result' = Convert(call, target,
                         Dispatched(response.status, HeaderMap(response.headers),
                                    response.text.text))
    /\ pc' = "done"
    /\ UNCHANGED <<response, target, call, sends, fault, notApiVars>>

DispatchNext == SendFails \/ SendSucceeds \/ BytesFail \/ BytesReceived

DispatchSpec == DispatchInit /\ [][DispatchNext]_vars

----------------------------------------------------------------------------
(* A client of the crate decodes a received response or dispatches a       *)
(* request.                                                                *)

ClientInit == Init \/ DispatchInit

ClientNext == Next \/ DispatchNext

ClientSpec == ClientInit /\ [][ClientNext]_vars

----------------------------------------------------------------------------
(* derive(Batch) of bc-batch-derive, expanded for the struct Foo of the    *)
(* test of bc-batch: FooBatch has one Vec per field of Foo, and From and   *)
(* FromIterator push the fields of every item in turn.                     *)

\* The named fields of Foo.
FooFields == {"foo", "bar", "baz", "asd_jkl"}

FooItem(foo, bar, baz, asd_jkl) ==
    [foo |-> foo, bar |-> bar, baz |-> baz, asd_jkl |-> asd_jkl]

\* The items of test::batch_derive_macro_works, and one with empty fields.
FooItems ==
    { FooItem("nil", "first", NoneV, <<TRUE, FALSE, TRUE>>),
      FooItem("nil", "second", SomeV(NumV(123)), <<FALSE, TRUE, FALSE, TRUE>>),
      FooItem("nil", "third", SomeV(NumV(0)), <<TRUE, TRUE, FALSE, FALSE>>),
      FooItem("nil", "", NoneV, <<>>) }

FooVecs == UNION {[1..n -> FooItems] : n \in 0..MaxItems}

\* Self { #(#field_names: Vec::new(),)* }
EmptyColumns(fields) == [f \in fields |-> <<>>]

\* Mutant: the fields of an item are put in front of the columns.
PushItemFront(b, item) == [f \in DOMAIN b |-> <<item[f]>> \o b[f]]

\* #(batch.#field_names.push(item.#field_names);)*
PushItem(b, item) == [f \in DOMAIN b |-> Append(b[f], item[f])]

RECURSIVE PushItems(_, _)
\* for item in items { ... }
PushItems(b, its) ==
    IF its = <<>> THEN b ELSE PushItems(PushItem(b, Head(its)), Tail(its))

\* impl From<Vec<Foo>> for FooBatch
FooBatchFrom(its) == PushItems(EmptyColumns(FooFields), its)

\* impl FromIterator<Foo> for FooBatch
FooBatchFromIter(its) == PushItems(EmptyColumns(FooFields), its)

FooBatchInit ==
    /\ records \in FooVecs
    /\ batch = NoBatch
    /\ way = "none"
    /\ NoCallInProgress
    /\ NoDatabaseInUse
    /\ NoTextInUse

\* FooBatch::from(items)
FromVec ==
    /\ way = "none"
    /\ batch' = FooBatchFrom(records)
    /\ way' = "from"
    /\ UNCHANGED <<records, notBatchVars>>

\* items.into_iter().collect::<FooBatch>()
FromIter ==
    /\ way = "none"
    /\ batch' = FooBatchFromIter(records)
    /\ way' = "from_iter"
    /\ UNCHANGED <<records, notBatchVars>>

FooBatchNext == FromVec \/ FromIter

FooBatchSpec == FooBatchInit /\ [][FooBatchNext]_vars

----------------------------------------------------------------------------
(* derive(Record) of bc-record-derive, expanded for TestRecord and         *)
(* InnerRecord of the test of bc-database: the batch of a struct has a Vec *)
(* per field that is not flattened and the batch of the nested struct per  *)
(* flattened field.  A field is flattened when it is a Vec of a struct and *)
(* carries #[record(flatten)].                                             *)

RecordFields(S) ==
    CASE S = "TestRecord" -> {"id", "foo", "bar", "baz", "quux"}
      [] S = "InnerRecord" -> {"foo", "bar", "baz"}

\* Field::inner_vec_type: the X of a field of type Vec<X>.
InnerVecType(S, f) ==
    CASE S = "TestRecord" /\ f = "baz" -> "u8"
      [] S = "TestRecord" /\ f = "quux" -> "InnerRecord"
      [] S = "InnerRecord" /\ f = "bar" -> "u8"
      [] OTHER -> "none"

\* utils::should_flatten: the field carries #[record(flatten)].
ShouldFlatten(S, f) == S = "TestRecord" /\ f = "quux"

\* Builder::push: push_flattened or push_non_flattened.
IsFlattened(S, f) == InnerVecType(S, f) # "none" /\ ShouldFlatten(S, f)

InnerRecord(foo, bar, baz) == [foo |-> foo, bar |-> bar, baz |-> baz]

TestRecord(id, foo, bar, baz, quux) ==
    [id |-> id, foo |-> foo, bar |-> bar, baz |-> baz, quux |-> quux]

\* dummy_records() of the test, and a record with one nested record.
DummyRecords ==
    { TestRecord(0, "stinky", -34, <<1, 2, 3>>,
                 << InnerRecord("hello", <<1, 2, 3, 4, 5>>, TRUE),
                    InnerRecord("bello", <<10, 20>>, FALSE) >>),
      TestRecord(1, "spongy", 1234, <<4>>,
                 << InnerRecord("yello", <<100, 200, 250>>, TRUE) >>),
      TestRecord(2, "stingy", 0, <<>>, <<>>),
      TestRecord(3, "", 0, <<>>, << InnerRecord("", <<>>, FALSE) >>) }

RecordVecs == UNION {[1..n -> DummyRecords] : n \in 0..MaxItems}

RECURSIVE BatchDefault(_)
\* #[derive(Default)] of the batch: empty columns, default sub-batches.
BatchDefault(S) ==
    [f \in RecordFields(S) |->
        IF IsFlattened(S, f) THEN BatchDefault(InnerVecType(S, f)) ELSE <<>>]

\* pub fn new() -> Self { Self::default() }
BatchNew(S) == BatchDefault(S)

RECURSIVE BatchPush(_, _, _)
RECURSIVE BatchExtend(_, _, _)
RECURSIVE BatchExtendReversed(_, _, _)

\* Mutant: the records are pushed from the last to the first.
BatchExtendReversed(S, b, rs) ==
    IF rs = <<>> THEN b
    ELSE BatchPush(S, BatchExtendReversed(S, b, Tail(rs)), Head(rs))

\* records.into_iter().for_each(|record| self.push(record))
BatchExtend(S, b, rs) ==
    IF rs = <<>> THEN b
    ELSE BatchExtend(S, BatchPush(S, b, Head(rs)), Tail(rs))

\* push: self.#field_name.extend(record.#field_name) for a flattened field,
\* self.#field_name.push(record.#field_name) for any other.
BatchPush(S, b, record) ==
    [f \in RecordFields(S) |->
        IF IsFlattened(S, f)
        THEN BatchExtend(InnerVecType(S, f), b[f], record[f])
        ELSE Append(b[f], record[f])]

RECURSIVE Fold(_, _, _)
\* records.into_iter().fold(acc, |mut multi, record| { multi.push(record); multi })
Fold(S, acc, rs) ==
    IF rs = <<>> THEN acc ELSE Fold(S, BatchPush(S, acc, Head(rs)), Tail(rs))

\* impl From<Vec<#struct_type>> for #batch_type
BatchFrom(S, rs) == Fold(S, BatchDefault(S), rs)

RecordInit ==
    /\ records = <<>>
    /\ batch = NoBatch
    /\ way = "none"
    /\ NoCallInProgress
    /\ NoDatabaseInUse
    /\ NoTextInUse

\* BatchTestRecord::new()
New ==
    /\ way = "none"
    /\ batch' = BatchNew("TestRecord")
    /\ way' = "new"
    /\ UNCHANGED <<records, notBatchVars>>

\* BatchTestRecord::from(records)
From ==
    /\ way = "none"
    /\ \E rs \in RecordVecs :
          /\ batch' = BatchFrom("TestRecord", rs)
          /\ records' = rs
    /\ way' = "from"
    /\ UNCHANGED notBatchVars

\* batch.push(record)
Push ==
    /\ way # "none"
    /\ Len(records) < MaxItems
    /\ \E record \in DummyRecords :
          /\ batch' = BatchPush("TestRecord", batch, record)
          /\ records' = Append(records, record)
    /\ UNCHANGED <<way, notBatchVars>>

\* batch.extend(records)
Extend ==
    /\ way # "none"
    /\ \E rs \in RecordVecs :
          /\ Len(records) + Len(rs) <= MaxItems
          /\ batch' = BatchExtend("TestRecord", batch, rs)
          /\ records' = records \o rs
    /\ UNCHANGED <<way, notBatchVars>>

RecordNext == New \/ From \/ Push \/ Extend

RecordSpec == RecordInit /\ [][RecordNext]_vars

----------------------------------------------------------------------------
(* raw_insert_query, insert_query, insert_tx and insert of the derived     *)
(* batch.  A query text is the sequence of the pieces format! puts         *)
(* together.  The server keeps the rows of the statements executed in a    *)
(* transaction apart until the transaction is committed, and forgets them  *)
(* when it is dropped.  begin, every execute and commit are awaited, and   *)
(* each may fail.                                                          *)

\* The named fields of the struct in declaration order, as Builder::push is
\* called with them.
RecordFieldOrder(S) ==
    CASE S = "TestRecord" -> <<"id", "foo", "bar", "baz", "quux">>
      [] S = "InnerRecord" -> <<"foo", "bar", "baz">>

\* #[record(table = ...)]
TableName(S) ==
    CASE S = "TestRecord" -> "test"
      [] S = "InnerRecord" -> "inner_test"

RecordFieldType(S, f) ==
    CASE S = "TestRecord" /\ f = "id" -> "i16"
      [] S = "TestRecord" /\ f = "foo" -> "String"
      [] S = "TestRecord" /\ f = "bar" -> "i64"
      [] S = "TestRecord" /\ f = "baz" -> "Vec<u8>"
      [] S = "TestRecord" /\ f = "quux" -> "Vec<InnerRecord>"
      [] S = "InnerRecord" /\ f = "foo" -> "String"
      [] S = "InnerRecord" /\ f = "bar" -> "Vec<u8>"
      [] S = "InnerRecord" /\ f = "baz" -> "bool"

\* <T as sqlx::Type<sqlx::Postgres>>::type_info().name()
PgTypeName(T) ==
    CASE T = "i16" -> "INT2"
      [] T = "String" -> "TEXT"
      [] T = "i64" -> "INT8"
      [] T = "Vec<u8>" -> "BYTEA"
      [] T = "bool" -> "BOOL"

\* Builder::non_flattened_names after push of every field.
NonFlattenedNames(S) ==
    SelectSeq(RecordFieldOrder(S), LAMBDA f : ~IsFlattened(S, f))

\* Builder::flattened_names after push of every field.
FlattenedNames(S) ==
    SelectSeq(RecordFieldOrder(S), LAMBDA f : IsFlattened(S, f))

\* Builder::non_flattened_types after push of every field.
NonFlattenedTypes(S) ==
    [k \in DOMAIN NonFlattenedNames(S) |->
        RecordFieldType(S, NonFlattenedNames(S)[k])]

RECURSIVE Join(_, _)
\* collect::<Vec<String>>().join(sep)
Join(parts, sep) ==
    IF parts = <<>> THEN <<>>
    ELSE IF Len(parts) = 1 THEN parts[1]
    ELSE parts[1] \o <<sep>> \o Join(Tail(parts), sep)

\* Builder::join_non_flattened_names
JoinNonFlattenedNames(S) ==
    Join([k \in DOMAIN NonFlattenedNames(S) |-> <<NonFlattenedNames(S)[k]>>], ",")

\* Mutant: the placeholders are numbered from 0.
PlaceholderFromZero(i, val) == <<"$", ToString(i), "::", val, "[]">>

\* format!("${}::{}[]", i + 1, val), i the index enumerate() counts from 0
Placeholder(i, val) == <<"$", ToString(i + 1), "::", val, "[]">>

\* values.into_iter().enumerate().map(...).collect::<Vec<String>>().join(",")
ValuesString(S) ==
    Join([k \in DOMAIN NonFlattenedTypes(S) |->
             Placeholder(k - 1, PgTypeName(NonFlattenedTypes(S)[k]))], ",")

\* format!("INSERT INTO {} ({}) SELECT * FROM UNNEST({})", ...)
RawInsertQuery(S) ==
    <<"INSERT INTO ", TableName(S), " (">> \o JoinNonFlattenedNames(S)
        \o <<") SELECT * FROM UNNEST(">> \o ValuesString(S) \o <<")">>

\* sqlx::query(Self::raw_insert_query()) #(.bind(&self.#non_flattened_names))*
InsertQuery(S, b) ==
    [raw |-> RawInsertQuery(S),
     binds |-> [k \in DOMAIN NonFlattenedNames(S) |-> b[NonFlattenedNames(S)[k]]]]

\* The rows the server inserts for INSERT ... SELECT * FROM UNNEST(arrays):
\* one row per index of the bound arrays, into the table the text names.
RowsOf(q) ==
    [k \in 1..Len(q.binds[1]) |->
        [table |-> q.raw[2], row |-> [i \in DOMAIN q.binds |-> q.binds[i][k]]]]

\* Mutant: a dropped transaction keeps its rows.
KeptOnDrop(d, t) == [d EXCEPT !.rows = @ \o t.pending]

\* A transaction dropped without commit is rolled back: no row is stored.
RolledBack(d, t) == d

\* tx.commit(): the rows of the transaction are stored.
Committed(d, t) == [d EXCEPT !.rows = @ \o t.pending]

\* The transaction after query.execute(tx.as_mut()).
Executed(t, q) == [t EXCEPT !.pending = @ \o RowsOf(q)]

\* An sqlx::Error of the awaited operation op.
SqlxError(op) == [kind |-> "Err", error |-> op]

OkUnit == [kind |-> "Ok"]

InsertInit ==
    /\ records \in RecordVecs
    /\ batch = BatchFrom("TestRecord", records)
    /\ way = "from"
    /\ step = "begin"
    /\ tx = NoTransaction
    /\ db = [names |-> {}, rows |-> <<>>]
    /\ executed = <<>>
    /\ outcome = NoOutcome
    /\ opts = [database |-> "none"]
    /\ NoCallInProgress
    /\ NoTextInUse

\* pool.begin().await fails.
BeginFails ==
    /\ step = "begin"
    /\ outcome' = SqlxError("begin")
    /\ step' = "done"
    /\ UNCHANGED <<tx, db, executed, opts, batchVars, notDbVars>>

\* let mut tx = pool.begin().await?
Begin ==
    /\ step = "begin"
    /\ tx' = [state |-> "open", pending |-> <<>>]
    /\ step' = "parent"
    /\ UNCHANGED <<db, executed, outcome, opts, batchVars, notDbVars>>

\* self.insert_query().execute(tx.as_mut()).await fails; tx is dropped.
ExecuteParentFails ==
    /\ step = "parent"
    /\ executed' = Append(executed, InsertQuery("TestRecord", batch))
    /\ db' = RolledBack(db, tx)
    /\ tx' = [state |-> "dropped", pending |-> <<>>]
    /\ outcome' = SqlxError("execute")
    /\ step' = "done"
    /\ UNCHANGED <<opts, batchVars, notDbVars>>

\* self.insert_query().execute(tx.as_mut()).await?
ExecuteParent ==
    /\ step = "parent"
    /\ executed' = Append(executed, InsertQuery("TestRecord", batch))
    /\ tx' = Executed(tx, InsertQuery("TestRecord", batch))
    /\ step' = IF FlattenedNames("TestRecord") = <<>> THEN "commit" ELSE "child"
    /\ UNCHANGED <<db, outcome, opts, batchVars, notDbVars>>

\* The flattened field whose batch is inserted next.
NextChild == FlattenedNames("TestRecord")[Len(executed)]

\* The query of the batch of the flattened field f.
ChildQuery(f) == InsertQuery(InnerVecType("TestRecord", f), batch[f])

\* self.#flattened_names.insert_query().execute(tx.as_mut()).await fails.
ExecuteChildFails ==
    /\ step = "child"
    /\ executed' = Append(executed, ChildQuery(NextChild))
    /\ db' = RolledBack(db, tx)
    /\ tx' = [state |-> "dropped", pending |-> <<>>]
    /\ outcome' = SqlxError("execute")
    /\ step' = "done"
    /\ UNCHANGED <<opts, batchVars, notDbVars>>

\* #(self.#flattened_names.insert_query().execute(tx.as_mut()).await?;)*
ExecuteChild ==
    /\ step = "child"
    /\ executed' = Append(executed, ChildQuery(NextChild))
    /\ tx' = Executed(tx, ChildQuery(NextChild))
    /\ step' = IF Len(executed) = Len(FlattenedNames("TestRecord"))
               THEN "commit" ELSE "child"
    /\ UNCHANGED <<db, outcome, opts, batchVars, notDbVars>>

\* tx.commit().await fails: nothing is stored.
CommitFails ==
    /\ step = "commit"
    /\ db' = RolledBack(db, tx)
    /\ tx' = [state |-> "dropped", pending |-> <<>>]
    /\ outcome' = SqlxError("commit")
    /\ step' = "done"
    /\ UNCHANGED <<executed, opts, batchVars, notDbVars>>

\* tx.commit().await
Commit ==
    /\ step = "commit"
    /\ db' = Committed(db, tx)
    /\ tx' = [state |-> "committed", pending |-> <<>>]
    /\ outcome' = OkUnit
    /\ step' = "done"
    /\ UNCHANGED <<executed, opts, batchVars, notDbVars>>

InsertNext ==
    \/ BeginFails \/ Begin
    \/ ExecuteParentFails \/ ExecuteParent
    \/ ExecuteChildFails \/ ExecuteChild
    \/ CommitFails \/ Commit

InsertSpec == InsertInit /\ [][InsertNext]_vars

----------------------------------------------------------------------------
(* Options::connect (and Config::connect, the same code).  The existence   *)
(* query and CREATE DATABASE are awaited, and each may fail.               *)

DbNames == {"postgres", "my_random_db", "app"}

\* self.connect.get_database().map_or_else(|| "postgres".to_string(), ..)
RequestedDb(o) == IF o.database = "none" THEN "postgres" ELSE o.database

\* format!("SELECT 1 FROM pg_database WHERE datname='{db}'")
ExistsStatement(name) == <<"SELECT 1 FROM pg_database WHERE datname='", name, "'">>

\* format!("CREATE DATABASE \"{db}\";")
CreateStatement(name) == <<"CREATE DATABASE \"", name, "\";">>

\* rows_affected() of the existence query on the server: the rows selected.
RowsAffected(d, stmt) == IF stmt[2] \in d.names THEN 1 ELSE 0

\* Mutant: the database is created whatever the query returned.
AlwaysCreate(rows) == TRUE

\* if maybe_already_db.rows_affected() < 1
ShouldCreate(rows) == rows < 1

\* The server after CREATE DATABASE.
Created(d, stmt) == [d EXCEPT !.names = @ \union {stmt[2]}]

\* Ok(self.connect_with_db(&db))
OkPool(name) == [kind |-> "Ok", pool |-> [database |-> name]]

\* A statement sent to the server and what came back.
Sent(stmt, ok, rows) == [stmt |-> stmt, ok |-> ok, rows |-> rows]

ConnectInit ==
    /\ opts \in [database : {"none"} \union DbNames]
    /\ db \in [names : SUBSET DbNames, rows : {<<>>}]
    /\ step = "query"
    /\ tx = NoTransaction
    /\ executed = <<>>
    /\ outcome = NoOutcome
    /\ NoBatchInUse
    /\ NoCallInProgress
    /\ NoTextInUse

\* The existence query fails: pool.execute(..).await? returns the error.
ExistsQueryFails ==
    /\ step = "query"
    /\ executed' = Append(executed, Sent(ExistsStatement(RequestedDb(opts)), FALSE, 0))
    /\ outcome' = SqlxError("execute")
    /\ step' = "done"
    /\ UNCHANGED <<tx, db, opts, batchVars, notDbVars>>

\* The existence query returns a row: the pool of the database is returned.
ExistsQueryFound ==
    /\ step = "query"
    /\ ~ShouldCreate(RowsAffected(db, ExistsStatement(RequestedDb(opts))))
    /\ executed' = Append(executed,
                     Sent(ExistsStatement(RequestedDb(opts)), TRUE,
                          RowsAffected(db, ExistsStatement(RequestedDb(opts)))))
    /\ outcome' = OkPool(RequestedDb(opts))
    /\ step' = "done"
    /\ UNCHANGED <<tx, db, opts, batchVars, notDbVars>>

\* The existence query returns no row: CREATE DATABASE is next.
ExistsQueryNotFound ==
    /\ step = "query"
    /\ ShouldCreate(RowsAffected(db, ExistsStatement(RequestedDb(opts))))
    /\ executed' = Append(executed,
                     Sent(ExistsStatement(RequestedDb(opts)), TRUE,
                          RowsAffected(db, ExistsStatement(RequestedDb(opts)))))
    /\ step' = "create"
    /\ UNCHANGED <<tx, db, outcome, opts, batchVars, notDbVars>>

\* CREATE DATABASE fails: pool.execute(..).await? returns the error.
CreateFails ==
    /\ step = "create"
    /\ executed' = Append(executed, Sent(CreateStatement(RequestedDb(opts)), FALSE, 0))
    /\ outcome' = SqlxError("execute")
    /\ step' = "done"
    /\ UNCHANGED <<tx, db, opts, batchVars, notDbVars>>

\* CREATE DATABASE succeeds, on a server without a database of the name:
\* the pool of the database is returned.
Create ==
    /\ step = "create"
    /\ RequestedDb(opts) \notin db.names
    /\ executed' = Append(executed, Sent(CreateStatement(RequestedDb(opts)), TRUE, 0))
    /\ db' = Created(db, CreateStatement(RequestedDb(opts)))
    /\ outcome' = OkPool(RequestedDb(opts))
    /\ step' = "done"
    /\ UNCHANGED <<tx, opts, batchVars, notDbVars>>

ConnectNext ==
    \/ ExistsQueryFails \/ ExistsQueryFound \/ ExistsQueryNotFound
    \/ CreateFails \/ Create

ConnectSpec == ConnectInit /\ [][ConnectNext]_vars

----------------------------------------------------------------------------
(* derive(QueryBuilder) on TestQuery of the test: new, with_<field> and    *)
(* append_to.  A string is the sequence of the pieces format! and write!   *)
(* put together.                                                           *)

\* The longest base append_to is still called on.
MaxBaseLen == 5

\* The fields of TestQuery in declaration order.
QueryFields == <<"foo", "bar", "baz">>

\* TestQuery::new(), Self::default(): every field is None.
TestQueryNew == [f \in {"foo", "bar", "baz"} |-> NoneV]

\* Arguments of with_foo (usize), with_bar (String) and with_baz (TestWrapper).
FieldValues(f) ==
    CASE f = "foo" -> {0, 123, 212}
      [] f = "bar" -> {"", "hello"}
      [] f = "baz" -> {"wrapped", "hello"}

Bases == {<<>>, <<"/base">>}

\* Display of the field's type: usize in decimal, String and TestWrapper the
\* string itself.
Display(f, v) == IF f = "foo" THEN ToString(v) ELSE v

\* self.#name = Some(#name); self
With(q, f, v) == [q EXCEPT ![f] = SomeV(v)]

RECURSIVE PushToQuery(_, _)
\* if let Some(ref name) = self.name { query_str_vec.push(format!("{}={}",
\* name_str, name)) } for each field in order.
PushToQuery(q, fs) ==
    IF fs = <<>> THEN <<>>
    ELSE (IF q[Head(fs)] # NoneV
          THEN << <<Head(fs), "=", Display(Head(fs), q[Head(fs)].v)>> >>
          ELSE <<>>) \o PushToQuery(q, Tail(fs))

\* String::is_empty of a string given by its pieces.
IsEmptyText(t) == \A i \in DOMAIN t : t[i] = ""

\* Mutant: the question mark is written whatever was joined.
AppendedAlways(q, b) == b \o <<"?">> \o Join(PushToQuery(q, QueryFields), "&")

\* append_to: the base after the call.
AppendedTo(q, b) ==
    IF ~IsEmptyText(Join(PushToQuery(q, QueryFields), "&"))
    THEN b \o <<"?">> \o Join(PushToQuery(q, QueryFields), "&")
    ELSE b

QueryInit ==
    /\ query = TestQueryNew
    /\ base \in Bases
    /\ lastCall = [op |-> "new"]
    /\ route = NoRoute
    /\ filled = NoFilled
    /\ NoCallInProgress
    /\ NoBatchInUse
    /\ NoDatabaseInUse

\* The record of a call of with_<f> with argument v on query.
WithCall(f, v) == [op |-> "with", field |-> f, arg |-> v, query |-> query]

WithFoo ==
    \E v \in FieldValues("foo") :
        /\ query' = With(query, "foo", v)
        /\ lastCall' = WithCall("foo", v)
        /\ UNCHANGED <<base, notQueryVars>>

WithBar ==
    \E v \in FieldValues("bar") :
        /\ query' = With(query, "bar", v)
        /\ lastCall' = WithCall("bar", v)
        /\ UNCHANGED <<base, notQueryVars>>

WithBaz ==
    \E v \in FieldValues("baz") :
        /\ query' = With(query, "baz", v)
        /\ lastCall' = WithCall("baz", v)
        /\ UNCHANGED <<base, notQueryVars>>

AppendTo ==
    /\ Len(base) <= MaxBaseLen
    /\ base' = AppendedTo(query, base)
    /\ lastCall' = [op |-> "append_to", base |-> base]
    /\ UNCHANGED <<query, notQueryVars>>

QueryNext == WithFoo \/ WithBar \/ WithBaz \/ AppendTo

QuerySpec == QueryInit /\ [][QueryNext]_vars

----------------------------------------------------------------------------
(* fill_route! and route!.  A string is the sequence of its characters.    *)

\* The most keys listed in one use of the macros.
MaxKeys == 2

RECURSIVE Format(_, _)
\* format!(pattern, arg) of a pattern with one {}: {{ and }} are the braces
\* themselves, {} is the argument.
Format(pattern, arg) ==
    IF pattern = <<>> THEN <<>>
    ELSE IF Len(pattern) >= 2 /\ pattern[1] = "{" /\ pattern[2] = "{"
         THEN <<"{">> \o Format(SubSeq(pattern, 3, Len(pattern)), arg)
    ELSE IF Len(pattern) >= 2 /\ pattern[1] = "}" /\ pattern[2] = "}"
         THEN <<"}">> \o Format(SubSeq(pattern, 3, Len(pattern)), arg)
    ELSE IF Len(pattern) >= 2 /\ pattern[1] = "{" /\ pattern[2] = "}"
         THEN arg \o Format(SubSeq(pattern, 3, Len(pattern)), arg)
    ELSE <<pattern[1]>> \o Format(Tail(pattern), arg)

RECURSIVE Replace(_, _, _)
\* str::replace: every match of from, found from the left and not
\* overlapping an earlier one, is replaced by to.  from is never empty here.
Replace(s, from, to) ==
    IF Len(s) < Len(from) THEN s
    ELSE IF SubSeq(s, 1, Len(from)) = from
         THEN to \o Replace(SubSeq(s, Len(from) + 1, Len(s)), from, to)
    ELSE <<s[1]>> \o Replace(Tail(s), from, to)

\* $key.to_string() of an integer or a string.
KeyToString(v) == IF v.t = "num" THEN Numeral(v.n) ELSE v.s

RECURSIVE FillRoute(_, _, _)
\* fill_route!: result = result.replace(&format!(pattern, stringify!(key)),
\* &key.to_string()) for each key in the order listed.
FillRoute(pattern, r, keys) ==
    IF keys = <<>> THEN r
    ELSE FillRoute(pattern,
                   Replace(r, Format(pattern, Head(keys).name),
                           KeyToString(Head(keys).value)),
                   Tail(keys))

\* The pattern literal of route!.
RoutePattern == <<"{", "{", "{", "}", "}", "}">>

\* route!
Route(r, keys) == FillRoute(RoutePattern, r, keys)

Patterns == {<<":", "{", "}">>, <<"<", "{", "}", ">">>, RoutePattern}

\* The variables in scope where the macro is used.
Key(name, value) == [name |-> name, value |-> value]

KeysInScope ==
    { Key(<<"a">>, StrV(<<"{", "b", "}">>)),
      Key(<<"b">>, StrV(<<"x">>)),
      Key(<<"i", "d">>, NumV(1)),
      Key(<<"i", "d", "2">>, NumV(5)),
      Key(<<"m", "y", "_", "i", "d">>, NumV(123)) }

\* The lists of up to MaxKeys different keys.
KeyLists ==
    UNION { { ks \in [1..n -> KeysInScope] :
                \A i, j \in 1..n : i # j => ks[i].name # ks[j].name } :
            n \in 0..MaxKeys }

Routes ==
    { <<"/", "v", "1", "/", "i", "d">>,
      <<"/", ":", "m", "y", "_", "i", "d">>,
      <<"/", "{", "a", "}", "/", "{", "b", "}">>,
      <<"/", ":", "i", "d", "2", "/", ":", "i", "d">>,
      <<"/", "<", "i", "d", ">", ":", "<", "i", "d", ">">> }

RouteInit ==
    /\ route \in [macro : {"fill_route", "route"}, pattern : Patterns,
                  route : Routes, keys : KeyLists]
    /\ route.macro = "route" => route.pattern = RoutePattern
    /\ filled = NoFilled
    /\ query = NoQuery
    /\ base = <<>>
    /\ lastCall = NoCall
    /\ NoCallInProgress
    /\ NoBatchInUse
    /\ NoDatabaseInUse

\* fill_route!(pattern, route, keys...)
FillRouteMacro ==
    /\ route.macro = "fill_route"
    /\ filled = NoFilled
    /\ filled' = StrV(FillRoute(route.pattern, route.route, route.keys))
    /\ UNCHANGED <<route, notRouteVars>>

\* route!(route, keys...)
RouteMacro ==
    /\ route.macro = "route"
    /\ filled = NoFilled
    /\ filled' = StrV(Route(route.route, route.keys))
    /\ UNCHANGED <<route, notRouteVars>>

RouteNext == FillRouteMacro \/ RouteMacro

RouteSpec == RouteInit /\ [][RouteNext]_vars

----------------------------------------------------------------------------
(* Names for stating the properties *)

Done == pc = "done"

\* The client-error and server-error statuses.
ErrorRange == 400..599

ReceivedOk == response.text.ok

----------------------------------------------------------------------------
(* Status classification *)

\* C1: for every received status in the 4xx or 5xx range, every body and every
\* target type, the result is Err, its status is the received status unchanged
\* and its error is the marker "status is error", also when the body would
\* deserialize as the target type.
ErrorStatusYieldsStatusError ==
    Done /\ response.status \in ErrorRange =>
        /\ result.kind = "Err"
        /\ result.status = response.status
        /\ result.body.error = StatusIsErrorText

\* An error status with a body that deserializes as the target type.
ErrorStatusDecodableBody ==
    /\ Done
    /\ response.status = 418
    /\ target = "U64"
    /\ response.text = TextOk(<<"1", "2">>)
    /\ result.kind = "Err"
    /\ result.status = 418

\* C2: for every received status in the 4xx or 5xx range and every body text,
\* the message of the returned Err equals the body text as received.
ErrorMessageIsReceivedBody ==
    Done /\ response.status \in ErrorRange /\ ReceivedOk =>
        /\ result.kind = "Err"
        /\ result.body.message = response.text.text

\* C3: whenever the result is Ok, its status is not in the 4xx or 5xx range.
OkStatusNotError ==
    Done /\ result.kind = "Ok" => result.status \notin ErrorRange

\* Ok results just below and just above the error range.
OkAtRangeEdges ==
    /\ Done
    /\ result.kind = "Ok"
    /\ result.status \in {399, 600}

\* C4: whenever the result is Err, its status is in the 4xx or 5xx range: the
\* received status when that is an error status, 400 otherwise.
ErrStatusInErrorRange ==
    Done /\ result.kind = "Err" =>
        /\ result.status \in ErrorRange
        /\ result.status =
               IF response.status \in ErrorRange THEN response.status ELSE 400

\* A decode failure of a response received with status 200.
DecodeFailureOfOkStatus ==
    /\ Done
    /\ response.status = 200
    /\ result.kind = "Err"
    /\ result.status = 400

----------------------------------------------------------------------------
(* Decoding the body *)

\* C5: round trip: for every value v of the target type and every 2xx status,
\* decoding the JSON encoding of v returns Ok with body v and the received
\* status.
RoundTrip ==
    Done /\ response.status \in 200..299 /\ ReceivedOk =>
        \A v \in Values(target) :
            response.text.text = ToJson(v) =>
                /\ result.kind = "Ok"
                /\ result.body = v
                /\ result.status = response.status

\* The encoding of a TestData with every field set has been decoded.
RoundTripTestData ==
    /\ Done
    /\ response.status = 201
    /\ target = "TestData"
    /\ response.text = TextOk(ToJson(TestData(12, MyBar, SomeV(NumV(7)))))
    /\ result.kind = "Ok"

\* C7: an empty body received with a non-error status decodes as the token
\* null: as the unit type it is Ok with the unit body, as an optional type it is
\* Ok with the absent value.
EmptyBodyDecodesAsNull ==
    Done /\ response.status \notin ErrorRange /\ response.text = TextOk(<<>>) =>
        /\ target = "Unit" =>
               result.kind = "Ok" /\ result.body = UnitV
        /\ IsOption(target) =>
               result.kind = "Ok" /\ result.body = NoneV

\* Status 204 with an empty body, decoded as the unit type.
EmptyNoContentAsUnit ==
    /\ Done
    /\ response.status = 204
    /\ response.text = TextOk(<<>>)
    /\ target = "Unit"
    /\ result.kind = "Ok"

\* A text is JSON when it deserializes as IgnoredAny.
IsJson(s) == FromStr("IgnoredAny", s).ok

\* C8: for a non-error status and the string target type, a body that is bare
\* text (not empty, not JSON) decodes to Ok whose body is the body text as
\* received, newlines and double quotes included, with the received status.
BareTextDecodesAsString ==
    Done /\ response.status \notin ErrorRange /\ target = "Str" /\ ReceivedOk
         /\ response.text.text # <<>> /\ ~IsJson(response.text.text) =>
        /\ result.kind = "Ok"
        /\ result.body = StrV(response.text.text)
        /\ result.status = response.status

\* Bare text with a newline and a double quote, decoded as a string.
BareTextWithNewlineAndQuote ==
    /\ Done
    /\ response.status = 200
    /\ target = "Str"
    /\ response.text = TextOk(HelloMy)
    /\ result.kind = "Ok"

\* C9: for a non-error status and the struct target type, an object that gives
\* foo and bar with the right types and leaves baz out decodes to Ok with those
\* values, baz absent, and the received status.
ObjectDecodesAsTestData ==
    Done /\ response.status \notin ErrorRange /\ target = "TestData" /\ ReceivedOk =>
        \A foo \in {0, 12}, bar \in {<<>>, MyBar}, variant \in 1..4 :
            response.text.text = PartialObject(foo, bar, variant) =>
                /\ result.kind = "Ok"
                /\ result.body = TestData(foo, bar, NoneV)
                /\ result.status = response.status

\* The body of test::process_valid_body decoded with status 201.
ValidBodyDecoded ==
    /\ Done
    /\ response.status = 201
    /\ target = "TestData"
    /\ response.text = TextOk(PartialObject(12, MyBar, 1))
    /\ result.kind = "Ok"

\* C10: when the status is not 4xx/5xx and every decode attempt fails, the
\* result is Err with status 400, error the description of the structured
\* decode's failure, and message the body text as received.
DecodeFailureReportsReceivedBody ==
    Done /\ response.status \notin ErrorRange /\ ReceivedOk
         /\ result.kind = "Err" =>
        /\ result.status = 400
        /\ result.body.error = FromStr(target, NormalizeEmpty(response.text.text)).err
        /\ result.body.message = response.text.text

----------------------------------------------------------------------------
(* Error bodies *)

\* C11 as stated: when the status is 4xx/5xx and the body is a structured
\* error object, the message of the returned Err is the message of that object
\* rather than the body text.
ErrorObjectMessagePreferred ==
    Done /\ response.status \in ErrorRange /\ ReceivedOk =>
        \A e \in ErrorTexts, m \in ErrorTexts :
            response.text.text = ErrorObject(e, m) =>
                /\ result.kind = "Err"
                /\ result.body.message = m

\* C11 as amended: when the status is 4xx/5xx and the body is a structured
\* error object, the returned Err carries the fixed marker as error and the
\* whole body text, as received, as message; the object is not parsed.
ErrorObjectKeptAsText ==
    Done /\ response.status \in ErrorRange /\ ReceivedOk =>
        \A e \in ErrorTexts, m \in ErrorTexts :
            response.text.text = ErrorObject(e, m) =>
                /\ result.kind = "Err"
                /\ result.body.error = StatusIsErrorText
                /\ result.body.message = ErrorObject(e, m)

\* A structured error object received with status 599.
ErrorObjectReceived ==
    /\ Done
    /\ response.status = 599
    /\ response.text = TextOk(ErrorObject(Invalid, MyBar))
    /\ result.kind = "Err"
    /\ result.body.message = ErrorObject(Invalid, MyBar)

----------------------------------------------------------------------------
(* Transport failures of dispatch *)

\* C12: when the send or the body read of a dispatch call fails at the
\* transport level, the call returns Err with status 400, the description of
\* the transport failure as error and no headers; it returns no Ok and nothing
\* is decoded.
TransportFailureIsBadRequest ==
    Done /\ fault # NoFault =>
        /\ result.kind = "Err"
        /\ result.status = 400
        /\ result.body.error = fault
        /\ DOMAIN result.headers = {}
        /\ result.body.error \in SendErrors \cup BodyErrors

\* The body read of a dispatch_json call failed after a response with status
\* 200 and headers had been received.
BodyReadFailed ==
    /\ Done
    /\ call = "dispatch_json"
    /\ fault = Description("error decoding response body", FALSE)
    /\ response.status = 200
    /\ response.headers = OpaqueHeaders
    /\ result.kind = "Err"

----------------------------------------------------------------------------
(* Totality of decode *)

\* v is a value of the target type T.
HasType(v, T) ==
    CASE T = "Unit" -> v = UnitV
      [] T = "Str" -> v.t = "str"
      [] T = "U64" -> v.t = "num" /\ v.n \in Nat
      [] T = "OptU8" ->
            v = NoneV \/ (v.t = "some" /\ v.v.t = "num" /\ v.v.n \in 0..U8Max)
      [] T = "OptStr" -> v = NoneV \/ (v.t = "some" /\ v.v.t = "str")
      [] T = "VecU8" ->
            /\ v.t = "seq"
            /\ \A i \in DOMAIN v.items :
                  v.items[i].t = "num" /\ v.items[i].n \in 0..U8Max
      [] T = "TestData" ->
            /\ v.t = "TestData"
            /\ v.foo \in Nat
            /\ v.baz = NoneV \/ (v.baz.t = "some" /\ v.baz.v.n \in 0..U8Max)

\* C13: decode is total: for every status, header list, body text (read or
\* not) and target type, decode returns either Ok with a body of the target
\* type or Err with a GenericError body, and nothing else.
DecodeIsTotal ==
    Done =>
        \/ /\ result.kind = "Ok"
           /\ HasType(result.body, target)
        \/ /\ result.kind = "Err"
           /\ DOMAIN result.body = {"error", "message"}

\* A response whose body could not be read and whose header value is not
\* visible ASCII has been decoded.
UnreadableResponseDecoded ==
    /\ Done
    /\ ~ReceivedOk
    /\ response.headers = OpaqueHeaders
    /\ result.kind \in {"Ok", "Err"}

----------------------------------------------------------------------------
(* The fallback and the target type *)

\* The target types that deserialize from a JSON string.
StringLike == {"Str", "OptStr"}

----------------------------------------------------------------------------
(* Headers and status of the result *)

\* C15 as stated: the headers of the result equal the headers of the received
\* response, whether the result is Ok, a status Err or a decode-failure Err,
\* and on Ok the status is the received status.
HeadersUnchanged ==
    Done =>
        /\ DOMAIN result.headers =
               {response.headers[i].name : i \in DOMAIN response.headers}
        /\ \A i \in DOMAIN response.headers :
               result.headers[response.headers[i].name] = response.headers[i].value
        /\ result.kind = "Ok" => result.status = response.status

\* The i-th received header is the last of its name.
LastOfName(i) ==
    \A j \in DOMAIN response.headers :
        response.headers[j].name = response.headers[i].name => j <= i

\* C15 as amended: whether the result is Ok, a status Err or a decode-failure
\* Err, its headers are the received headers as a map from name to text: the
\* names are the received names, a value that is visible ASCII is unchanged, a
\* value that is not is the empty text, and of several headers of one name the
\* last is kept; on Ok the status is the received status.
HeadersCarried ==
    Done =>
        /\ DOMAIN result.headers =
               {response.headers[i].name : i \in DOMAIN response.headers}
        /\ \A i \in DOMAIN response.headers :
               LastOfName(i) =>
                   result.headers[response.headers[i].name] =
                       IF response.headers[i].visible
                       THEN response.headers[i].value
                       ELSE ""
        /\ result.kind = "Ok" => result.status = response.status

\* A decode failure of a response with a header value that is not visible
\* ASCII.
OpaqueHeaderBlanked ==
    /\ Done
    /\ response.status = 200
    /\ response.headers = OpaqueHeaders
    /\ result.kind = "Err"
    /\ result.headers["x-id"] = ""
    /\ result.headers["foo"] = "bar"

----------------------------------------------------------------------------
(* Sending at most once *)

\* C17: a dispatch call sends its request at most once: the request has been
\* sent once when the call has returned, whether it returned Ok, a transport
\* failure, a status failure or a decode failure, and is never sent again.
SentAtMostOnce ==
    /\ sends <= 1
    /\ Done => sends = 1
    /\ pc = "sent" => sends = 1

\* A dispatch_json call that ended in a decode failure after one send.
DecodeFailureAfterOneSend ==
    /\ Done
    /\ call = "dispatch_json"
    /\ fault = NoFault
    /\ response.status = 200
    /\ result.kind = "Err"
    /\ sends = 1

----------------------------------------------------------------------------
(* The cause of a failure *)

\* The error texts that mark a status-indicated failure: the marker of
\* try_from and the markers of dispatch.
StatusMarkers == {StatusIsErrorText} \cup {RequestFailedWith(s) : s \in 100..999}

TransportDescriptions == SendErrors \cup BodyErrors

\* The call failed because of the received status.
StatusFailed == fault = NoFault /\ response.status \in ErrorRange

\* C18: the cause of a failure is recoverable from the error of the Err that
\* try_from or dispatch returns: a status-indicated failure carries the marker
\* (of try_from, or of dispatch with the status), a transport failure carries
\* the description of the transport failure, a decode failure carries the
\* description of the deserialization failure, and only a status-indicated
\* failure carries a marker, so that a decode failure forced to 400 differs
\* from a received 400.
CauseRecoverable ==
    Done /\ result.kind = "Err" /\ (call = "decode" => ReceivedOk) =>
        /\ fault # NoFault =>
              result.body.error = fault /\ result.status = 400
        /\ StatusFailed =>
              /\ result.status = response.status
              /\ result.body.error =
                    IF call = "decode" THEN StatusIsErrorText
                    ELSE RequestFailedWith(response.status)
        /\ fault = NoFault /\ ~StatusFailed =>
              /\ result.status = 400
              /\ result.body.error =
                    FromStr(target, NormalizeEmpty(response.text.text)).err
        /\ result.body.error \in StatusMarkers <=> StatusFailed
        /\ result.body.error \in TransportDescriptions <=> fault # NoFault

\* A decode failure forced to 400, which carries no marker.
ForcedBadRequestIsNotMarked ==
    /\ Done
    /\ call = "decode"
    /\ ReceivedOk
    /\ response.status = 200
    /\ result.kind = "Err"
    /\ result.status = 400
    /\ result.body.error \notin StatusMarkers

----------------------------------------------------------------------------
(* Batches *)

\* C19: the batch that From<Vec<Foo>> or FromIterator makes of a vector of
\* items has the fields of Foo as columns, every column is as long as the
\* vector, the i-th entry of a column is that field of the i-th item, every
\* column of the batch of the empty vector is empty, and FromIterator makes
\* the batch From makes.
ColumnsFollowItems ==
    way \in {"from", "from_iter"} =>
        /\ DOMAIN batch = FooFields
        /\ \A f \in FooFields :
              /\ Len(batch[f]) = Len(records)
              /\ \A i \in 1..Len(records) : batch[f][i] = records[i][f]
              /\ records = <<>> => batch[f] = <<>>
        /\ way = "from_iter" => batch = FooBatchFrom(records)

\* The three items of test::batch_derive_macro_works collected in order.
ThreeItemsCollected ==
    /\ way = "from_iter"
    /\ Len(records) = 3
    /\ batch.bar = <<"first", "second", "third">>
    /\ batch.baz = <<NoneV, SomeV(NumV(123)), SomeV(NumV(0))>>

RECURSIVE Concat(_)
\* The concatenation of a sequence of sequences.
Concat(seqs) == IF seqs = <<>> THEN <<>> ELSE Head(seqs) \o Concat(Tail(seqs))

\* The nested records of the records added so far, in order.
NestedRecords == Concat([i \in 1..Len(records) |-> records[i].quux])

\* C20: after any sequence of records has been added to a batch, by new and
\* push, by extend or by From, every column of a field that is not flattened
\* holds that field of every added record in the order added, the sub-batch of
\* the flattened field holds the nested records of the added records in the
\* same order, and new followed by pushes, new followed by one extend, and
\* From give this same batch.
BatchFollowsRecords ==
    way # "none" =>
        /\ \A f \in {"id", "foo", "bar", "baz"} :
              batch[f] = [i \in 1..Len(records) |-> records[i][f]]
        /\ \A g \in {"foo", "bar", "baz"} :
              batch.quux[g] =
                  [k \in 1..Len(NestedRecords) |-> NestedRecords[k][g]]
        /\ batch = BatchFrom("TestRecord", records)
        /\ batch = BatchExtend("TestRecord", BatchNew("TestRecord"), records)
        /\ batch = Fold("TestRecord", BatchNew("TestRecord"), records)

\* The batch of test::push_to_batch: new, then three records added.
ThreeRecordsPushed ==
    /\ way = "new"
    /\ batch.id = <<0, 1, 2>>
    /\ batch.baz = << <<1, 2, 3>>, <<4>>, <<>> >>
    /\ batch.quux.foo = <<"hello", "bello", "yello">>
    /\ batch.quux.baz = <<TRUE, FALSE, TRUE>>

----------------------------------------------------------------------------
(* The batch insert *)

\* The columns of the two tables of the tests and their Postgres types, as
\* the tables are created.
ColumnsOf(table) ==
    CASE table = "test" -> <<"id", "foo", "bar", "baz">>
      [] table = "inner_test" -> <<"foo", "bar", "baz">>

ColumnTypesOf(table) ==
    CASE table = "test" -> <<"INT2", "TEXT", "INT8", "BYTEA">>
      [] table = "inner_test" -> <<"TEXT", "BYTEA", "BOOL">>

\* The k-th executed statement is the parent's for k = 1, the child's after.
TableOfStatement(k) == IF k = 1 THEN "test" ELSE "inner_test"

BatchOfStatement(k) == IF k = 1 THEN batch ELSE batch.quux

\* The text q.raw reads INSERT INTO table (c1,..,cn) SELECT * FROM
\* UNNEST($1::T1[],..,$n::Tn[]) and q.binds are the n columns of b in order.
HasInsertShape(q, table, b) ==
    /\ Len(q.raw) = 8 * Len(ColumnsOf(table)) + 3
    /\ q.raw[1] = "INSERT INTO " /\ q.raw[2] = table /\ q.raw[3] = " ("
    /\ \A k \in DOMAIN ColumnsOf(table) :
          /\ q.raw[2 + 2 * k] = ColumnsOf(table)[k]
          /\ k < Len(ColumnsOf(table)) => q.raw[3 + 2 * k] = ","
    /\ q.raw[3 + 2 * Len(ColumnsOf(table))] = ") SELECT * FROM UNNEST("
    /\ \A k \in DOMAIN ColumnsOf(table) :
          /\ SubSeq(q.raw, 6 * k - 2 + 2 * Len(ColumnsOf(table)),
                           6 * k + 2 + 2 * Len(ColumnsOf(table)))
               = <<"$", ToString(k), "::", ColumnTypesOf(table)[k], "[]">>
          /\ k < Len(ColumnsOf(table))
               => q.raw[6 * k + 3 + 2 * Len(ColumnsOf(table))] = ","
    /\ q.raw[Len(q.raw)] = ")"
    /\ \A i \in DOMAIN q.raw : q.raw[i] # "quux"
    /\ DOMAIN q.binds = DOMAIN ColumnsOf(table)
    /\ \A k \in DOMAIN ColumnsOf(table) : q.binds[k] = b[ColumnsOf(table)[k]]

\* C21: every insert query of a batch reads INSERT INTO <table> (<columns>)
\* SELECT * FROM UNNEST(<placeholders>), the columns being the fields that
\* are not flattened, in declaration order and joined by commas, the
\* placeholders $1..$n each cast to the array of the column's Postgres type,
\* a flattened field in neither list, and binds exactly those n columns of
\* the batch in order.
InsertQueryShape ==
    \A k \in DOMAIN executed :
        HasInsertShape(executed[k], TableOfStatement(k), BatchOfStatement(k))

\* C21 happens: the parent's and the child's query of a batch of three
\* records were executed, the parent's with the text the test expects.
BothQueriesExecuted ==
    /\ Len(records) = 3
    /\ Len(executed) = 2
    /\ executed[1].raw =
         <<"INSERT INTO ", "test", " (", "id", ",", "foo", ",", "bar", ",", "baz",
           ") SELECT * FROM UNNEST(",
           "$", "1", "::", "INT2", "[]", ",", "$", "2", "::", "TEXT", "[]", ",",
           "$", "3", "::", "INT8", "[]", ",", "$", "4", "::", "BYTEA", "[]", ")">>
    /\ Len(executed[1].binds) = 4

\* The rows of table test the records make, one per record.
ParentRows ==
    [k \in 1..Len(records) |->
        [table |-> "test",
         row |-> <<records[k].id, records[k].foo, records[k].bar, records[k].baz>>]]

\* The rows of table inner_test the nested records make.
ChildRows ==
    [k \in 1..Len(NestedRecords) |->
        [table |-> "inner_test",
         row |-> <<NestedRecords[k].foo, NestedRecords[k].bar, NestedRecords[k].baz>>]]

\* C22: insert of a batch is all or nothing.  The parent's insert is
\* executed first and the flattened child's after it, in one transaction;
\* the transaction is committed only after both were executed; once a step
\* has failed insert has returned that error, nothing more is executed and
\* the transaction is never committed; after Ok every row of the batch and
\* of its child batch is stored, after Err none.
InsertAllOrNothing ==
    /\ Len(executed) <= 2
    /\ \A k \in DOMAIN executed : executed[k].raw[2] = TableOfStatement(k)
    /\ tx.state = "committed" => Len(executed) = 2 /\ outcome.kind = "Ok"
    /\ outcome.kind = "Ok"
         => step = "done" /\ tx.state = "committed" /\ db.rows = ParentRows \o ChildRows
    /\ outcome.kind = "Err"
         => /\ step = "done"
            /\ tx.state # "committed"
            /\ db.rows = <<>>
            /\ outcome.error = "begin" => executed = <<>>
            /\ outcome.error = "commit" => Len(executed) = 2
    /\ step # "done" => db.rows = <<>> /\ outcome = NoOutcome

\* C22 happens: the child's insert failed after the parent's rows of three
\* records were inserted in the transaction.
ChildInsertFailed ==
    /\ Len(records) = 3
    /\ step = "done"
    /\ outcome = SqlxError("execute")
    /\ Len(executed) = 2
    /\ tx.state = "dropped"

----------------------------------------------------------------------------
(* The query builder *)

\* The fields of the query that are set, in declaration order.
SetFields == SelectSeq(<<"foo", "bar", "baz">>, LAMBDA f : query[f].t = "some")

\* The value of a set field as it is written.
Written(f) == IF f = "foo" THEN ToString(query.foo.v) ELSE query[f].v

\* What the last call of append_to added to the base.
Appended == SubSeq(base, Len(lastCall.base) + 1, Len(base))

\* C23: append_to adds to the base a question mark and name=value for
\* exactly the set fields, in declaration order and joined by &, and leaves
\* the base as it was when no field is set; with_<field> sets that field to
\* its argument and leaves every other field as it was.
QueryAppended ==
    /\ lastCall.op = "append_to"
         => /\ SubSeq(base, 1, Len(lastCall.base)) = lastCall.base
            /\ Len(base) = Len(lastCall.base) + 4 * Len(SetFields)
            /\ SetFields # <<>> => Appended[1] = "?"
            /\ \A k \in DOMAIN SetFields :
                  /\ SubSeq(Appended, 4 * k - 2, 4 * k)
                       = <<SetFields[k], "=", Written(SetFields[k])>>
                  /\ k > 1 => Appended[4 * k - 3] = "&"
    /\ lastCall.op = "with"
         => /\ query[lastCall.field] = SomeV(lastCall.arg)
            /\ \A g \in {"foo", "bar", "baz"} \ {lastCall.field} :
                  query[g] = lastCall.query[g]

\* C23 happens: a query with foo and baz set and bar not was appended to
\* /base, as in the test.
TwoFieldsAppended ==
    /\ lastCall.op = "append_to"
    /\ lastCall.base = <<"/base">>
    /\ query = [foo |-> SomeV(123), bar |-> NoneV, baz |-> SomeV("hello")]
    /\ base = <<"/base", "?", "foo", "=", "123", "&", "baz", "=", "hello">>

----------------------------------------------------------------------------
(* Filling a route *)

\* The pattern of the use formatted with a key's name.
Formatted(name) ==
    CASE route.pattern = <<":", "{", "}">> -> <<":">> \o name
      [] route.pattern = <<"<", "{", "}", ">">> -> <<"<">> \o name \o <<">">>
      [] route.pattern = <<"{", "{", "{", "}", "}", "}">> -> <<"{">> \o name \o <<"}">>

\* The listed keys whose formatted pattern occurs at position i of the route.
KeysAt(i) ==
    { k \in DOMAIN route.keys :
        /\ i + Len(Formatted(route.keys[k].name)) - 1 <= Len(route.route)
        /\ SubSeq(route.route, i, i + Len(Formatted(route.keys[k].name)) - 1)
             = Formatted(route.keys[k].name) }

\* The written form of the value of the k-th listed key.
ValueText(k) ==
    CASE route.keys[k].value = NumV(1) -> <<"1">>
      [] route.keys[k].value = NumV(5) -> <<"5">>
      [] route.keys[k].value = NumV(123) -> <<"1", "2", "3">>
      [] OTHER -> route.keys[k].value.s

RECURSIVE Substituted(_)
\* The route from position i on, every occurrence of a listed key's pattern
\* replaced by that key's value.
Substituted(i) ==
    IF i > Len(route.route) THEN <<>>
    ELSE IF KeysAt(i) # {}
         THEN ValueText(CHOOSE k \in KeysAt(i) : TRUE)
                \o Substituted(i + Len(Formatted(route.keys[CHOOSE k \in KeysAt(i) : TRUE].name)))
    ELSE <<route.route[i]>> \o Substituted(i + 1)

\* No two listed keys' patterns occur at the same place of the route.
OccurrencesApart == \A i \in DOMAIN route.route : Cardinality(KeysAt(i)) <= 1

\* C24: the filled string is the route with every occurrence of a listed
\* key's formatted pattern replaced by that key's stringified value (so the
\* route itself when no key is listed or no pattern occurs), route! using
\* the pattern {name}.
FilledBySubstitution ==
    (filled # NoFilled /\ OccurrencesApart) => filled = StrV(Substituted(1))

\* The keys of the use listed in another order.
Orderings(keys) ==
    { ks \in [DOMAIN keys -> {keys[k] : k \in DOMAIN keys}] :
        \A i, j \in DOMAIN keys : i # j => ks[i] # ks[j] }

\* C28: the filled string is the same for every order of listing the same
\* keys.
KeyOrderIrrelevant ==
    filled # NoFilled
        => \A ks \in Orderings(route.keys) :
              filled = StrV(FillRoute(route.pattern, route.route, ks))

----------------------------------------------------------------------------
(* Connecting to a database *)

\* The database asked for: the configured one, postgres when none is.
Wanted == IF opts.database \in {"my_random_db", "app"} THEN opts.database ELSE "postgres"

\* CREATE DATABASE was sent.
CreateSent == Len(executed) = 2

\* C25: connect first asks the server whether the wanted database exists,
\* postgres when none is configured; it sends CREATE DATABASE for it exactly
\* when the query came back with no row; it returns a pool only after that,
\* and the pool is of the wanted database; when the query or the creation
\* failed it has returned Err and no pool.
ConnectCreatesWhenMissing ==
    /\ Len(executed) <= 2
    /\ executed # <<>>
         => executed[1].stmt = <<"SELECT 1 FROM pg_database WHERE datname='", Wanted, "'">>
    /\ CreateSent
         => /\ executed[2].stmt = <<"CREATE DATABASE \"", Wanted, "\";">>
            /\ executed[1].ok /\ executed[1].rows = 0
    /\ (step = "done" /\ ~CreateSent) => ~executed[1].ok \/ executed[1].rows >= 1
    /\ step = "create" => executed[1].ok /\ executed[1].rows = 0 /\ outcome = NoOutcome
    /\ step = "query" => executed = <<>> /\ outcome = NoOutcome
    /\ outcome.kind = "Ok"
         => /\ step = "done"
            /\ outcome.pool = [database |-> Wanted]
            /\ \A k \in DOMAIN executed : executed[k].ok
            /\ Wanted \in db.names
    /\ (step = "done" /\ \E k \in DOMAIN executed : ~executed[k].ok)
         => outcome = [kind |-> "Err", error |-> "execute"]
    /\ step = "done" => outcome.kind \in {"Ok", "Err"}

\* C25 happens: with no database configured and no database postgres on the
\* server, postgres was created and its pool returned.
DefaultDatabaseCreated ==
    /\ opts.database = "none"
    /\ CreateSent
    /\ outcome = [kind |-> "Ok", pool |-> [database |-> "postgres"]]

----------------------------------------------------------------------------
(* A body that could not be read, and the string target *)

\* C26: when reading the body of the received response fails, decode returns
\* Err, whatever the status and the target type.
BodyReadFailureIsErr == Done /\ ~ReceivedOk => result.kind = "Err"

\* C27: for a status that is not an error and the string target type, every
\* body text decodes to Ok: to the string the body denotes when the body is a
\* JSON string, to the text null when the body is empty, and to the body
\* text itself otherwise.
StringTargetNeverFails ==
    Done /\ response.status \notin ErrorRange /\ target = "Str" /\ ReceivedOk =>
        /\ result.kind = "Ok"
        /\ result.status = response.status
        /\ result.body =
             IF response.text.text = <<>> THEN StrV(<<"n", "u", "l", "l">>)
             ELSE IF FromStr("Str", response.text.text).ok
                  THEN FromStr("Str", response.text.text).val
                  ELSE StrV(response.text.text)

\* C27 happens: a body that is JSON but not a string, the number 10, was
\* decoded as a string and gave its own text.
NumberBodyDecodedAsText ==
    /\ Done
    /\ response.status = 200
    /\ target = "Str"
    /\ response.text = [ok |-> TRUE, text |-> <<"1", "0">>]
    /\ result.kind = "Ok"
    /\ result.body = StrV(<<"1", "0">>)


====
